---- MODULE Spec2Model ----
(***************************************************************************)
(* Model of the form-component scaffolder (tools/forms-scaffolder.js).     *)
(* Strings are sequences of tokens: every character an operation of the    *)
(* scaffolder looks at (whitespace, '-', '_', ',', ':', quotes, brackets,  *)
(* letters of target names) is a token of its own; the fixed JSON keys the *)
(* filter pattern names literally are one token each.                      *)
(***************************************************************************)
EXTENDS Integers, Sequences, FiniteSets, TLC

\* ------------------------------------------------------------------ bounds
\* number of successive invocations of the tool in a behaviour of SpecSeq
NumRuns == 2
\* number of choices that can be enabled at once in the multi-select of the model
MaxSelected == 2

\* ------------------------------------------------------------ sequences
Range(s) == {s[i] : i \in 1..Len(s)}

RECURSIVE Flatten(_)
Flatten(ss) == IF ss = <<>> THEN <<>> ELSE Head(ss) \o Flatten(Tail(ss))

RECURSIVE JoinWith(_, _)
JoinWith(ss, sep) ==
  IF ss = <<>> THEN <<>>
  ELSE IF Len(ss) = 1 THEN Head(ss)
  ELSE Head(ss) \o sep \o JoinWith(Tail(ss), sep)

Min(S) == CHOOSE x \in S : \A y \in S : x <= y

Filter(s, Keep(_)) == SelectSeq(s, Keep)

MapSeq(s, F(_)) == [i \in 1..Len(s) |-> F(s[i])]

\* const x = v; ... : F applied to the value of v
Bind(v, F(_)) == CHOOSE r \in {F(x) : x \in {v}} : TRUE

\* ------------------------------------------------------------ characters
LowerLetters == <<"a", "b", "c", "d", "e", "f", "g", "h", "i", "j", "k", "l", "m",
                  "n", "o", "p", "q", "r", "s", "t", "u", "v", "w", "x", "y", "z">>
UpperLetters == <<"A", "B", "C", "D", "E", "F", "G", "H", "I", "J", "K", "L", "M",
                  "N", "O", "P", "Q", "R", "S", "T", "U", "V", "W", "X", "Y", "Z">>
Digits == <<"0", "1", "2", "3", "4", "5", "6", "7", "8", "9">>

IsSpace(c) == c \in {" ", "\n", "\t"}

ToLowerChar(c) ==
  IF c \in Range(UpperLetters)
  THEN LowerLetters[CHOOSE i \in 1..26 : UpperLetters[i] = c]
  ELSE c

ToUpperChar(c) ==
  IF c \in Range(LowerLetters)
  THEN UpperLetters[CHOOSE i \in 1..26 : LowerLetters[i] = c]
  ELSE c

\* String.prototype.trim
RECURSIVE TrimLeft(_)
TrimLeft(s) == IF s # <<>> /\ IsSpace(Head(s)) THEN TrimLeft(Tail(s)) ELSE s

RECURSIVE TrimRight(_)
TrimRight(s) ==
  IF s # <<>> /\ IsSpace(s[Len(s)]) THEN TrimRight(SubSeq(s, 1, Len(s) - 1)) ELSE s

Trim(s) == TrimLeft(TrimRight(s))

\* s.replace(/X+/g, r): every maximal run of characters of class X becomes r
RECURSIVE ReplaceRuns(_, _, _)
ReplaceRuns(s, InClass(_), r) ==
  IF s = <<>> THEN <<>>
  ELSE IF InClass(Head(s))
       THEN IF Len(s) > 1 /\ InClass(s[2])
            THEN ReplaceRuns(Tail(s), InClass, r)
            ELSE r \o ReplaceRuns(Tail(s), InClass, r)
       ELSE <<Head(s)>> \o ReplaceRuns(Tail(s), InClass, r)

\* s.replace(/c/g, r) for a single character c
ReplaceChar(s, c, r) == [i \in 1..Len(s) |-> IF s[i] = c THEN r ELSE s[i]]

\* n.toString() for a natural number
RECURSIVE NatToString(_)
NatToString(n) ==
  IF n < 10 THEN <<Digits[n + 1]>> ELSE NatToString(n \div 10) \o <<Digits[(n % 10) + 1]>>

\* ------------------------------------------------- transformComponentName
IsHyphen(c) == c = "-"

IsNameChar(c) == c \in Range(LowerLetters) \cup Range(Digits) \cup {"-", "_"}

RECURSIVE StripLeadingHyphens(_)
StripLeadingHyphens(s) ==
  IF s # <<>> /\ Head(s) = "-" THEN StripLeadingHyphens(Tail(s)) ELSE s

RECURSIVE StripTrailingHyphens(_)
StripTrailingHyphens(s) ==
  IF s # <<>> /\ s[Len(s)] = "-"
  THEN StripTrailingHyphens(SubSeq(s, 1, Len(s) - 1)) ELSE s

\* mutant: the leading and trailing hyphens are removed before the invalid characters
transformComponentNameStripFirst(rawName) ==
  IF rawName = <<>> THEN <<>>
  ELSE Filter(
         StripTrailingHyphens(
           StripLeadingHyphens(
             ReplaceRuns(
               ReplaceRuns(MapSeq(Trim(rawName), ToLowerChar), IsSpace, <<"-">>),
               IsHyphen, <<"-">>))),
         IsNameChar)

transformComponentName(rawName) ==
  IF rawName = <<>> THEN <<>>
  ELSE StripTrailingHyphens(                                    \* .replace(/-+$/, '')
         StripLeadingHyphens(                                   \* .replace(/^-+/, '')
           ReplaceRuns(                                         \* .replace(/-+/g, '-')
             Filter(                                            \* .replace(/[^a-z0-9-_]/g, '')
               ReplaceRuns(                                     \* .replace(/\s+/g, '-')
                 MapSeq(Trim(rawName), ToLowerChar),            \* .trim().toLowerCase()
                 IsSpace, <<"-">>),
               IsNameChar),
             IsHyphen, <<"-">>)))

\* componentName.charAt(0).toUpperCase() + componentName.slice(1).replace(/-/g, ' ')
formatComponentName(componentName) ==
  IF componentName = <<>> THEN <<>>
  ELSE <<ToUpperChar(Head(componentName))>> \o ReplaceChar(Tail(componentName), "-", " ")

\* ------------------------------------------------------- updateFormJson
\* The literal pieces of /"filters":\s*\[\s*\{\s*"id":\s*"form",\s*"components":\s*\[([^\]]*)\]/
KwFilters == "\"filters\":"
KwId == "\"id\":"
KwForm == "\"form\","
KwComponents == "\"components\":"

filtersRegex == <<KwFilters, "[", "{", KwId, KwForm, KwComponents, "[">>

\* \s* is greedy and is always followed by a non-space literal
RECURSIVE SkipSpaces(_, _)
SkipSpaces(doc, i) ==
  IF i <= Len(doc) /\ IsSpace(doc[i]) THEN SkipSpaces(doc, i + 1) ELSE i

\* position just after the k-th..last literal of the pattern, matched from i; 0 if no match
RECURSIVE MatchLiterals(_, _, _)
MatchLiterals(doc, i, k) ==
  IF k > Len(filtersRegex) THEN i
  ELSE Bind(IF k = 1 THEN i ELSE SkipSpaces(doc, i), LAMBDA j :
         IF j <= Len(doc) /\ doc[j] = filtersRegex[k]
         THEN MatchLiterals(doc, j + 1, k + 1)
         ELSE 0)

\* ([^\]]*)\] : the body runs to the first "]" at or after position b
ClosingBracket(doc, b) ==
  IF b = 0 \/ \A j \in b..Len(doc) : doc[j] # "]" THEN 0
  ELSE Min({j \in b..Len(doc) : doc[j] = "]"})

MatchAt(doc, i) ==
  Bind(MatchLiterals(doc, i, 1), LAMBDA b :
    [found |-> TRUE, start |-> i, bodyStart |-> b, close |-> ClosingBracket(doc, b)])

\* A match can only start at the first literal of the pattern
MatchStarts(doc) ==
  {i \in {j \in 1..Len(doc) : doc[j] = filtersRegex[1]} : MatchAt(doc, i).close # 0}

\* String.prototype.match without /g: the leftmost match, or null (found = FALSE)
FilterMatch(doc) ==
  Bind(MatchStarts(doc), LAMBDA S :
    IF S = {} THEN [found |-> FALSE, start |-> 0, bodyStart |-> 0, close |-> 0]
    ELSE MatchAt(doc, Min(S)))

HasFilterMatch(doc) == FilterMatch(doc).found

\* s.split(',')
RECURSIVE SplitOn(_, _)
SplitOn(s, sep) ==
  IF \A i \in 1..Len(s) : s[i] # sep THEN <<s>>
  ELSE Bind(Min({i \in 1..Len(s) : s[i] = sep}), LAMBDA at :
         <<SubSeq(s, 1, at - 1)>> \o SplitOn(SubSeq(s, at + 1, Len(s)), sep))

IsNotQuote(c) == c \notin {"'", "\""}

\* mutant: the quotes around an entry are kept
StripQuotesKept(comp) == Trim(comp)

\* comp.trim().replace(/['"]/g, '')
StripQuotes(comp) == Filter(Trim(comp), IsNotQuote)

IsNonEmpty(s) == Len(s) > 0

ParseComponentList(componentsString) ==
  Filter(MapSeq(SplitOn(componentsString, ","), StripQuotes), IsNonEmpty)

\* match[1], split and cleaned
MatchedComponents(doc, m) == ParseComponentList(SubSeq(doc, m.bodyStart, m.close - 1))

CurrentFilterComponents(doc) == MatchedComponents(doc, FilterMatch(doc))

Spaces(n) == [i \in 1..n |-> " "]

\* `\n        "${comp}"`
EmitFilterEntry(comp) == <<"\n">> \o Spaces(8) \o <<"\"">> \o comp \o <<"\"">>

newFiltersSection(components) ==
  <<KwFilters, " ", "[", "\n">> \o Spaces(4) \o <<"{", "\n">> \o Spaces(6)
    \o <<KwId, " ", KwForm, "\n">> \o Spaces(6) \o <<KwComponents, " ", "[">>
    \o JoinWith(MapSeq(components, EmitFilterEntry), <<",">>)
    \o <<"\n">> \o Spaces(6) \o <<"]">>

\* formJsonContent.replace(filtersRegex, newFiltersSection): the whole match is replaced
\* (m is the leftmost match, the one replace finds again)
ReplaceFilterMatch(doc, m, section) ==
  SubSeq(doc, 1, m.start - 1) \o section \o SubSeq(doc, m.close + 1, Len(doc))

\* Result of updateFormJson on a shared document: the document text after the
\* call (readable = FALSE: readFileSync throws), the return value, and what happened.
updateFormJson(file, componentName) ==
  IF ~file.readable
  THEN [file |-> file, ok |-> FALSE, outcome |-> "failed"]
  ELSE Bind(FilterMatch(file.text), LAMBDA match :
    IF ~match.found
    THEN [file |-> file, ok |-> FALSE, outcome |-> "failed"]
    ELSE Bind(MatchedComponents(file.text, match), LAMBDA currentComponents :
      IF componentName \notin Range(currentComponents)
      THEN [file |-> [file EXCEPT !.text =
                        ReplaceFilterMatch(file.text, match,
                          newFiltersSection(Append(currentComponents, componentName)))],
            ok |-> TRUE, outcome |-> "added"]
      ELSE [file |-> file, ok |-> TRUE, outcome |-> "present"]))

\* ------------------------------------------------ updateComponentDefinition
\* `../blocks/form/components/${componentName}/_${componentName}.json#/definitions`
IncludePath(componentName) ==
  <<"../blocks/form/components/">> \o componentName \o <<"/_">> \o componentName
    \o <<".json#/definitions">>

CustomGroupIndexes(doc) == {i \in 1..Len(doc.groups) : doc.groups[i].id = "custom-components"}

\* mutant: the entry is appended without looking for an existing one
updateComponentDefinitionAppends(file, componentName) ==
  IF ~file.parsed \/ ~file.hasGroups \/ CustomGroupIndexes(file) = {}
  THEN [file |-> file, ok |-> FALSE, outcome |-> "failed"]
  ELSE LET g == Min(CustomGroupIndexes(file))
       IN IF ~file.groups[g].hasComponents
          THEN [file |-> file, ok |-> FALSE, outcome |-> "failed"]
          ELSE [file |-> [file EXCEPT !.groups[g].components =
                                         Append(@, IncludePath(componentName))],
                ok |-> TRUE, outcome |-> "added"]

\* The registry is kept as its parsed JSON value: parsed = FALSE stands for a file
\* that is missing or is not JSON, hasGroups = FALSE for a document without "groups",
\* hasComponents = FALSE for a group without a "components" array.
updateComponentDefinition(file, componentName) ==
  IF ~file.parsed \/ ~file.hasGroups
  THEN [file |-> file, ok |-> FALSE, outcome |-> "failed"]
  ELSE IF CustomGroupIndexes(file) = {}
  THEN [file |-> file, ok |-> FALSE, outcome |-> "failed"]
  ELSE LET g == Min(CustomGroupIndexes(file))
           customGroup == file.groups[g]
           newComponentEntry == IncludePath(componentName)
       IN IF ~customGroup.hasComponents
          THEN [file |-> file, ok |-> FALSE, outcome |-> "failed"]
          ELSE IF newComponentEntry \notin Range(customGroup.components)
          THEN [file |-> [file EXCEPT !.groups[g].components =
                                         Append(@, newComponentEntry)],
                ok |-> TRUE, outcome |-> "added"]
          ELSE [file |-> file, ok |-> TRUE, outcome |-> "present"]

\* ------------------------------------------------------------ JSON values
\* A JSON value is a record [kind, str, items]: a string (its tokens in str), an
\* object (items is the sequence of its [k, v] members in insertion order), an
\* array (items is the sequence of its elements), or JavaScript's undefined.
Str(tokens) == [kind |-> "str", str |-> tokens, items |-> <<>>]
Obj(members) == [kind |-> "obj", str |-> <<>>, items |-> members]
Arr(elements) == [kind |-> "arr", str |-> <<>>, items |-> elements]
Undefined == [kind |-> "undef", str |-> <<>>, items |-> <<>>]

KV(key, value) == [k |-> key, v |-> value]

Keys(o) == [i \in 1..Len(o.items) |-> o.items[i].k]

Has(o, key) == o.kind = "obj" /\ \E i \in 1..Len(o.items) : o.items[i].k = key

\* o[key] (undefined when the member is absent)
Get(o, key) ==
  IF Has(o, key)
  THEN o.items[CHOOSE i \in 1..Len(o.items) : o.items[i].k = key].v
  ELSE Undefined

DigitOf(c) == CHOOSE d \in 0..9 : Digits[d + 1] = c

\* a < b for two canonical decimal numerals
RECURSIVE NumeralLess(_, _)
NumeralLess(a, b) ==
  IF Len(a) # Len(b) THEN Len(a) < Len(b)
  ELSE IF a = <<>> THEN FALSE
  ELSE IF Head(a) # Head(b) THEN DigitOf(Head(a)) < DigitOf(Head(b))
  ELSE NumeralLess(Tail(a), Tail(b))

\* 2^32 - 1
ArrayIndexLimit == <<"4", "2", "9", "4", "9", "6", "7", "2", "9", "5">>

\* A property key that is an array index: the canonical decimal numeral of an
\* integer below 2^32 - 1. An object enumerates these keys first, in ascending
\* numeric order, and its other string keys after them in insertion order.
IsArrayIndex(key) ==
  /\ key # <<>>
  /\ \A i \in 1..Len(key) : key[i] \in Range(Digits)
  /\ key[1] = "0" => Len(key) = 1
  /\ NumeralLess(key, ArrayIndexLimit)

\* o[key] = value: an existing member keeps its position; a new array index goes
\* after the smaller array indexes; any other new member is appended
Put(o, key, value) ==
  IF Has(o, key)
  THEN Obj([i \in 1..Len(o.items) |->
              IF o.items[i].k = key THEN KV(key, value) ELSE o.items[i]])
  ELSE IF IsArrayIndex(key)
  THEN Obj(SelectSeq(o.items, LAMBDA m : IsArrayIndex(m.k) /\ NumeralLess(m.k, key))
             \o <<KV(key, value)>>
             \o SelectSeq(o.items, LAMBDA m : ~(IsArrayIndex(m.k) /\ NumeralLess(m.k, key))))
  ELSE Obj(Append(o.items, KV(key, value)))

\* o[key] = value as an assignment statement on an object made by {}: the key
\* __proto__ reaches the setter of Object.prototype, which changes the prototype
\* (or does nothing) and adds no member of its own
Assign(o, key, value) ==
  IF key = <<"__proto__">> THEN o ELSE Put(o, key, value)

\* { ...target, ...source }: spreading undefined adds nothing
RECURSIVE SpreadMembers(_, _)
SpreadMembers(target, members) ==
  IF members = <<>> THEN target
  ELSE SpreadMembers(Put(target, Head(members).k, Head(members).v), Tail(members))

Spread(target, source) ==
  IF source.kind = "obj" THEN SpreadMembers(target, source.items) ELSE target

\* truthiness of a value used in `a && b` / `a || b`
Truthy(v) == v.kind \in {"obj", "arr"} \/ (v.kind = "str" /\ v.str # <<>>)

\* JSON.stringify drops object members whose value is undefined
RECURSIVE Serialize(_)
Serialize(v) ==
  IF v.kind = "obj"
  THEN LET kept == SelectSeq(v.items, LAMBDA m : m.v.kind # "undef")
       IN Obj([i \in 1..Len(kept) |-> KV(kept[i].k, Serialize(kept[i].v))])
  ELSE IF v.kind = "arr"
  THEN Arr([i \in 1..Len(v.items) |-> Serialize(v.items[i])])
  ELSE v

\* ------------------------------------------------- transformComponentPaths
FormCommonPrefix == "../form-common/"
ModelsFormCommonPrefix == "../../models/form-common/"

\* value.replace(/^\.\.\/form-common\//, '../../models/form-common/')
RewriteIncludePath(tokens) ==
  IF tokens # <<>> /\ Head(tokens) = FormCommonPrefix
  THEN <<ModelsFormCommonPrefix>> \o Tail(tokens)
  ELSE tokens

RECURSIVE transformComponentPaths(_)

\* for (const [key, value] of Object.entries(obj)) transformed[key] = ...
RECURSIVE TransformEntries(_, _)
TransformEntries(transformed, entries) ==
  IF entries = <<>> THEN transformed
  ELSE TransformEntries(
         Assign(transformed, Head(entries).k,
                IF Head(entries).k = <<"...">> /\ Head(entries).v.kind = "str"
                THEN Str(RewriteIncludePath(Head(entries).v.str))
                ELSE transformComponentPaths(Head(entries).v)),
         Tail(entries))

transformComponentPaths(obj) ==
  IF obj.kind = "arr"
  THEN Arr([i \in 1..Len(obj.items) |-> transformComponentPaths(obj.items[i])])
  ELSE IF obj.kind = "obj"
  THEN TransformEntries(Obj(<<>>), obj.items)
  ELSE obj

\* ---------------------------------------------------- getComponentDefinition
\* The form-components directory is a sequence of [filename, file] entries in
\* readdir order; a file is [json |-> it parses, doc |-> its JSON value].
IsDefinitionFilename(name) == name # <<>> /\ Head(name) = "_" /\ name[Len(name)] = ".json"

\* 'panel' -> '_panel.json'; a name of the form _*.json is used as it is
DefinitionFilename(identifier) ==
  IF IsDefinitionFilename(identifier) THEN identifier
  ELSE <<"_">> \o identifier \o <<".json">>

DirHas(dir, filename) == \E i \in 1..Len(dir) : dir[i].filename = filename

DirFile(dir, filename) == dir[CHOOSE i \in 1..Len(dir) : dir[i].filename = filename].file

NoData == [filename |-> <<>>, identifier |-> <<>>, definitions |-> <<>>, models |-> <<>>,
           definition |-> Undefined, model |-> Undefined]

\* mutant: an empty definitions array is accepted
getComponentDefinitionAcceptsEmpty(dir, cache, identifier) ==
  IF identifier \in DOMAIN cache
  THEN [ok |-> TRUE, err |-> "none", data |-> cache[identifier], cache |-> cache]
  ELSE Bind(DefinitionFilename(identifier), LAMBDA filename :
    IF ~DirHas(dir, filename)
    THEN [ok |-> FALSE, err |-> "NotFound", data |-> NoData, cache |-> cache]
    ELSE Bind(DirFile(dir, filename), LAMBDA file :
      Bind(Get(file.doc, <<"definitions">>), LAMBDA definitions :
        IF ~file.json \/ definitions.kind # "arr"
        THEN [ok |-> FALSE, err |-> "InvalidSchema", data |-> NoData, cache |-> cache]
        ELSE Bind(Get(file.doc, <<"models">>), LAMBDA models :
          Bind(IF Truthy(models) THEN models.items ELSE <<>>, LAMBDA modelList :
            Bind([filename |-> filename,
                  identifier |-> identifier,
                  definitions |-> definitions.items,
                  models |-> modelList,
                  definition |-> IF definitions.items = <<>> THEN Undefined
                                 ELSE definitions.items[1],
                  model |-> IF modelList = <<>> THEN Undefined ELSE modelList[1]],
                 LAMBDA result :
                   [ok |-> TRUE, err |-> "none", data |-> result,
                    cache |-> cache @@ (identifier :> result)]))))))

\* Returns [ok, err, data, cache]: err is the class of the error thrown when ~ok.
getComponentDefinition(dir, cache, identifier) ==
  IF identifier \in DOMAIN cache
  THEN [ok |-> TRUE, err |-> "none", data |-> cache[identifier], cache |-> cache]
  ELSE Bind(DefinitionFilename(identifier), LAMBDA filename :
    IF ~DirHas(dir, filename)
    THEN [ok |-> FALSE, err |-> "NotFound", data |-> NoData, cache |-> cache]
    ELSE Bind(DirFile(dir, filename), LAMBDA file :
      Bind(Get(file.doc, <<"definitions">>), LAMBDA definitions :
        IF ~file.json \/ definitions.kind # "arr" \/ definitions.items = <<>>
        THEN [ok |-> FALSE, err |-> "InvalidSchema", data |-> NoData, cache |-> cache]
        ELSE Bind(Get(file.doc, <<"models">>), LAMBDA models :
          Bind(IF Truthy(models) THEN models.items ELSE <<>>, LAMBDA modelList :
            Bind([filename |-> filename,
                  identifier |-> identifier,
                  definitions |-> definitions.items,
                  models |-> modelList,
                  definition |-> definitions.items[1],
                  model |-> IF modelList = <<>> THEN Undefined ELSE modelList[1]],
                 LAMBDA result :
                   [ok |-> TRUE, err |-> "none", data |-> result,
                    cache |-> cache @@ (identifier :> result)]))))))

\* ------------------------------------------------------ getAllFormComponents
\* definition.plugins?.xwalk?.page
PageOf(definition) == Get(Get(Get(definition, <<"plugins">>), <<"xwalk">>), <<"page">>)

\* The titles of the catalog in the order localeCompare gives them
TitleOrder == << <<"Button">>, <<"Email">>, <<"Panel">>, <<"Text", " ", "Input">> >>

\* components.sort((a, b) => a.name.localeCompare(b.name)); the sort is stable
SortByName(components) ==
  Flatten([r \in 1..Len(TitleOrder) |->
             SelectSeq(components, LAMBDA c : c.name = TitleOrder[r])])
    \o SelectSeq(components, LAMBDA c : c.name \notin Range(TitleOrder))

ComponentOf(filename, componentData) ==
  Bind(PageOf(componentData.definition), LAMBDA page :
    Bind(Get(page, <<"template">>), LAMBDA template :
      Bind(Get(template, <<"fieldType">>), LAMBDA fieldType :
        [name |-> Get(componentData.definition, <<"title">>).str,
         id |-> Get(componentData.definition, <<"id">>).str,
         filename |-> componentData.filename,
         fieldType |-> IF Truthy(fieldType) THEN fieldType
                       ELSE Get(componentData.definition, <<"id">>),
         resourceType |-> Get(page, <<"resourceType">>),
         template |-> IF Truthy(template) THEN template ELSE Obj(<<>>),
         identifier |-> componentData.identifier,
         definitions |-> componentData.definitions,
         models |-> componentData.models])))

\* The loop over the definition files: [components, skipped, cache]
RECURSIVE LoadAll(_, _, _, _)
LoadAll(dir, files, cache, acc) ==
  IF files = <<>> THEN [components |-> acc.components, skipped |-> acc.skipped, cache |-> cache]
  ELSE Bind(getComponentDefinition(dir, cache, Head(files)), LAMBDA loaded :
         LoadAll(dir, Tail(files), loaded.cache,
                 IF loaded.ok /\ Truthy(loaded.data.definition)
                      /\ Truthy(Get(loaded.data.definition, <<"title">>))
                      /\ Truthy(Get(loaded.data.definition, <<"id">>))
                 THEN [acc EXCEPT !.components =
                                     Append(@, ComponentOf(Head(files), loaded.data))]
                 ELSE [acc EXCEPT !.skipped = Append(@, Head(files))]))

getAllFormComponents(dir, cache) ==
  Bind(LoadAll(dir, SelectSeq([i \in 1..Len(dir) |-> dir[i].filename], IsDefinitionFilename),
               cache, [components |-> <<>>, skipped |-> <<>>]),
       LAMBDA loaded :
         [components |-> SortByName(loaded.components), skipped |-> loaded.skipped,
          cache |-> loaded.cache])

\* allComponents.find(comp => comp.name === spec || comp.id === spec): 0 if none
FindComponent(allComponents, spec) ==
  Bind({i \in 1..Len(allComponents) :
          allComponents[i].name = spec \/ allComponents[i].id = spec},
       LAMBDA S : IF S = {} THEN 0 ELSE Min(S))

\* ------------------------------------------------------ parseComponentSpecs
HasChar(s, c) == \E i \in 1..Len(s) : s[i] = c

\* mutant: every argument that holds a comma is split
SpecsOfSplitsEvery(specArgs) ==
  Flatten([i \in 1..Len(specArgs) |-> MapSeq(SplitOn(specArgs[i], ","), Trim)])

\* The specs after the comma handling: one argument holding a comma is split
SpecsOf(specArgs) ==
  IF Len(specArgs) = 1 /\ HasChar(specArgs[1], ",")
  THEN MapSeq(SplitOn(specArgs[1], ","), Trim)
  ELSE specArgs

\* mutant: the custom name is the part between the first and the second colon
ParseSpecSecondPart(spec) ==
  IF HasChar(spec, ":")
  THEN Bind(SplitOn(spec, ":"), LAMBDA parts :
         [componentId |-> Trim(Head(parts)),
          customName |-> Trim(parts[2]),
          hasName |-> TRUE])
  ELSE [componentId |-> Trim(spec), customName |-> <<>>, hasName |-> FALSE]

\* [componentId, customName, hasName]: hasName is FALSE for customName = null
ParseSpec(spec) ==
  IF HasChar(spec, ":")
  THEN Bind(SplitOn(spec, ":"), LAMBDA parts :
         [componentId |-> Trim(Head(parts)),
          customName |-> Trim(JoinWith(Tail(parts), <<":">>)),
          hasName |-> TRUE])
  ELSE [componentId |-> Trim(spec), customName |-> <<>>, hasName |-> FALSE]

\* The loop over the specs: the first spec that fails throws
RECURSIVE ParseSpecs(_, _, _)
ParseSpecs(componentSpecs, allComponents, selectedComponents) ==
  IF componentSpecs = <<>>
  THEN [ok |-> TRUE, err |-> "none", selectedComponents |-> selectedComponents]
  ELSE Bind(ParseSpec(Head(componentSpecs)), LAMBDA p :
         Bind(FindComponent(allComponents, p.componentId), LAMBDA c :
           IF c = 0
           THEN [ok |-> FALSE, err |-> "ValidationError", selectedComponents |-> <<>>]
           ELSE IF p.hasName /\ p.customName = <<>>
           THEN [ok |-> FALSE, err |-> "ValidationError", selectedComponents |-> <<>>]
           ELSE ParseSpecs(Tail(componentSpecs), allComponents,
                           Append(selectedComponents,
                                  [component |-> allComponents[c],
                                   customName |-> IF p.customName # <<>> THEN p.customName
                                                  ELSE allComponents[c].name]))))

parseComponentSpecs(specArgs, allComponents) ==
  ParseSpecs(SpecsOf(specArgs), allComponents, <<>>)

\* ----------------------------------------------------- generateCompositeJSON
\* mutant: the position is appended only to an identifier that was selected twice
ElementNameOnRepeat(selectedComponents, index) ==
  LET baseElementName == ReplaceChar(selectedComponents[index].component.id, "-", "_")
  IN IF \E j \in 1..Len(selectedComponents) :
          j # index /\ selectedComponents[j].component.id
                         = selectedComponents[index].component.id
     THEN baseElementName \o NatToString(index)
     ELSE baseElementName

\* mutant: the position appended is 0-based
ElementNameZeroBased(selectedComponents, index) ==
  LET baseElementName == ReplaceChar(selectedComponents[index].component.id, "-", "_")
  IN IF Len(selectedComponents) > 1
     THEN baseElementName \o NatToString(index - 1)
     ELSE baseElementName

\* element.component.id.replace(/-/g, '_'), with the 1-based position appended
\* when more than one component was selected
ElementName(selectedComponents, index) ==
  LET baseElementName == ReplaceChar(selectedComponents[index].component.id, "-", "_")
  IN IF Len(selectedComponents) > 1
     THEN baseElementName \o NatToString(index)
     ELSE baseElementName

\* mutant: the display name is written before the child's template is merged
ElementEntryTitleFirst(element) ==
  Spread(Obj(<<KV(<<"sling:resourceType">>, element.component.resourceType),
               KV(<<"fieldType">>, element.component.fieldType),
               KV(<<"jcr:title">>,
                  Str(IF element.customName # <<>> THEN element.customName
                      ELSE element.component.name))>>),
         element.component.template)

ElementEntry(element) ==
  Put(Spread(Obj(<<KV(<<"sling:resourceType">>, element.component.resourceType),
                   KV(<<"fieldType">>, element.component.fieldType)>>),
             element.component.template),
      <<"jcr:title">>,
      Str(IF element.customName # <<>> THEN element.customName ELSE element.component.name))

\* selectedComponents.forEach((element, index) => template[elementName] = {...})
RECURSIVE AddElements(_, _, _)
AddElements(template, selectedComponents, index) ==
  IF index > Len(selectedComponents) THEN template
  ELSE AddElements(Assign(template, ElementName(selectedComponents, index),
                          ElementEntry(selectedComponents[index])),
                   selectedComponents, index + 1)

\* mutant: the panel's model is cloned with the new id and its paths are kept
compositeModelPathsKept(basePanelModel, componentName) ==
  Put(Spread(Obj(<<>>), basePanelModel), <<"id">>, Str(componentName))

\* transformComponentPaths({ ...JSON.parse(JSON.stringify(basePanelModel)), id: componentName })
compositeModel(basePanelModel, componentName) ==
  transformComponentPaths(Put(Spread(Obj(<<>>), basePanelModel),
                              <<"id">>, Str(componentName)))

\* x.plugins.xwalk.page.template can be read without a TypeError
HasPage(definition) == PageOf(definition).kind = "obj"

\* mutant: compositeDefinition is the cached panel definition itself, not a copy
generateCompositeJSONInPlace(dir, cache, componentName, selectedComponents) ==
  Bind(getComponentDefinition(dir, cache, <<"panel">>), LAMBDA panelComponentData :
    IF ~panelComponentData.ok
    THEN [ok |-> FALSE, err |-> panelComponentData.err, json |-> Undefined,
          cache |-> panelComponentData.cache]
    ELSE IF ~HasPage(panelComponentData.data.definition)
              \/ panelComponentData.data.model.kind = "undef"
    THEN [ok |-> FALSE, err |-> "InvalidSchema", json |-> Undefined,
          cache |-> panelComponentData.cache]
    ELSE Bind(panelComponentData.data.definition, LAMBDA basePanelDefinition :
      Bind(Get(basePanelDefinition, <<"plugins">>), LAMBDA basePlugins :
        Bind(Get(basePlugins, <<"xwalk">>), LAMBDA baseXwalk :
          Bind(Get(baseXwalk, <<"page">>), LAMBDA basePage :
            [ok |-> TRUE, err |-> "none",
             json |->
               Obj(<<KV(<<"definitions">>,
                        \* compositeDefinition, with its template filled in
                        Arr(<<Put(Put(Put(basePanelDefinition,
                                          <<"title">>, Str(formatComponentName(componentName))),
                                      <<"id">>, Str(componentName)),
                                  <<"plugins">>,
                                  Put(basePlugins, <<"xwalk">>,
                                    Put(baseXwalk, <<"page">>,
                                      Put(basePage, <<"template">>,
                                        AddElements(
                                          Put(Put(Spread(Obj(<<>>),
                                                         Get(basePage, <<"template">>)),
                                                  <<"jcr:title">>,
                                                  Str(formatComponentName(componentName))),
                                              <<"fd:viewType">>, Str(componentName)),
                                          selectedComponents, 1)))))>>)),
                     \* compositeModel
                     KV(<<"models">>,
                        Arr(<<compositeModel(panelComponentData.data.model,
                                             componentName)>>))>>),
             cache |-> [panelComponentData.cache EXCEPT
                          ![<<"panel">>].definition =
                             Put(Put(@, <<"title">>, Str(formatComponentName(componentName))),
                                 <<"id">>, Str(componentName))]])))))

\* Returns [ok, err, json, cache]
generateCompositeJSON(dir, cache, componentName, selectedComponents) ==
  Bind(getComponentDefinition(dir, cache, <<"panel">>), LAMBDA panelComponentData :
    IF ~panelComponentData.ok
    THEN [ok |-> FALSE, err |-> panelComponentData.err, json |-> Undefined,
          cache |-> panelComponentData.cache]
    ELSE IF ~HasPage(panelComponentData.data.definition)
              \/ panelComponentData.data.model.kind = "undef"
    THEN [ok |-> FALSE, err |-> "InvalidSchema", json |-> Undefined,
          cache |-> panelComponentData.cache]
    ELSE Bind(panelComponentData.data.definition, LAMBDA basePanelDefinition :
      Bind(Get(basePanelDefinition, <<"plugins">>), LAMBDA basePlugins :
        Bind(Get(basePlugins, <<"xwalk">>), LAMBDA baseXwalk :
          Bind(Get(baseXwalk, <<"page">>), LAMBDA basePage :
            [ok |-> TRUE, err |-> "none",
             json |->
               Obj(<<KV(<<"definitions">>,
                        \* compositeDefinition, with its template filled in
                        Arr(<<Put(Put(Put(basePanelDefinition,
                                          <<"title">>, Str(formatComponentName(componentName))),
                                      <<"id">>, Str(componentName)),
                                  <<"plugins">>,
                                  Put(basePlugins, <<"xwalk">>,
                                    Put(baseXwalk, <<"page">>,
                                      Put(basePage, <<"template">>,
                                        AddElements(
                                          Put(Put(Spread(Obj(<<>>),
                                                         Get(basePage, <<"template">>)),
                                                  <<"jcr:title">>,
                                                  Str(formatComponentName(componentName))),
                                              <<"fd:viewType">>, Str(componentName)),
                                          selectedComponents, 1)))))>>)),
                     \* compositeModel
                     KV(<<"models">>,
                        Arr(<<compositeModel(panelComponentData.data.model,
                                             componentName)>>))>>),
             cache |-> panelComponentData.cache])))))

\* ------------------------------------------- createComponentFiles (synthesis)
\* mutant: the base definition is spread over the new title and id
SimpleDefinitionBaseIdentity(def, componentName) ==
  Bind(Get(def, <<"plugins">>), LAMBDA plugins :
    Bind(Get(plugins, <<"xwalk">>), LAMBDA xwalk :
      Bind(Get(xwalk, <<"page">>), LAMBDA page :
        Put(Spread(Obj(<<KV(<<"title">>, Str(formatComponentName(componentName))),
                         KV(<<"id">>, Str(componentName))>>),
                   def),
            <<"plugins">>,
            Put(Spread(Obj(<<>>), plugins), <<"xwalk">>,
              Put(Spread(Obj(<<>>), xwalk), <<"page">>,
                Put(Spread(Obj(<<>>), page), <<"template">>,
                  Put(Put(Spread(Obj(<<>>), Get(page, <<"template">>)),
                          <<"jcr:title">>, Str(formatComponentName(componentName))),
                      <<"fd:viewType">>, Str(componentName)))))))))

\* mutant: the template holds the two target values only
SimpleDefinitionFreshTemplate(def, componentName) ==
  Bind(Get(def, <<"plugins">>), LAMBDA plugins :
    Bind(Get(plugins, <<"xwalk">>), LAMBDA xwalk :
      Bind(Get(xwalk, <<"page">>), LAMBDA page :
        Put(Put(Put(Spread(Obj(<<>>), def),
                    <<"title">>, Str(formatComponentName(componentName))),
                <<"id">>, Str(componentName)),
            <<"plugins">>,
            Put(Spread(Obj(<<>>), plugins), <<"xwalk">>,
              Put(Spread(Obj(<<>>), xwalk), <<"page">>,
                Put(Spread(Obj(<<>>), page), <<"template">>,
                  Put(Put(Obj(<<>>),
                          <<"jcr:title">>, Str(formatComponentName(componentName))),
                      <<"fd:viewType">>, Str(componentName)))))))))

\* One definition of a simple component: the object literal of the map callback
SimpleDefinition(def, componentName) ==
  Bind(Get(def, <<"plugins">>), LAMBDA plugins :
    Bind(Get(plugins, <<"xwalk">>), LAMBDA xwalk :
      Bind(Get(xwalk, <<"page">>), LAMBDA page :
        Put(Put(Put(Spread(Obj(<<>>), def),
                    <<"title">>, Str(formatComponentName(componentName))),
                <<"id">>, Str(componentName)),
            <<"plugins">>,
            Put(Spread(Obj(<<>>), plugins), <<"xwalk">>,
              Put(Spread(Obj(<<>>), xwalk), <<"page">>,
                Put(Spread(Obj(<<>>), page), <<"template">>,
                  Put(Put(Spread(Obj(<<>>), Get(page, <<"template">>)),
                          <<"jcr:title">>, Str(formatComponentName(componentName))),
                      <<"fd:viewType">>, Str(componentName)))))))))

SimpleModel(model, componentName) ==
  transformComponentPaths(Put(Spread(Obj(<<>>), model), <<"id">>, Str(componentName)))

\* Returns [ok, err, json, cache]; componentData is [type, baseComponent, selectedComponents]
SynthesizeJson(dir, cache, componentName, componentData) ==
  IF componentData.type = "simple"
  THEN Bind(getComponentDefinition(dir, cache,
                 IF componentData.baseComponent.filename # <<>>
                 THEN componentData.baseComponent.filename
                 ELSE componentData.baseComponent.id),
            LAMBDA loaded :
              IF ~loaded.ok
              THEN [ok |-> FALSE, err |-> loaded.err, json |-> Undefined,
                    cache |-> loaded.cache]
              ELSE IF \E i \in 1..Len(loaded.data.definitions) :
                        ~HasPage(loaded.data.definitions[i])
              THEN [ok |-> FALSE, err |-> "InvalidSchema", json |-> Undefined,
                    cache |-> loaded.cache]
              ELSE [ok |-> TRUE, err |-> "none",
                    json |-> Obj(<<KV(<<"definitions">>,
                                      Arr([i \in 1..Len(loaded.data.definitions) |->
                                             SimpleDefinition(loaded.data.definitions[i],
                                                              componentName)])),
                                   KV(<<"models">>,
                                      Arr([i \in 1..Len(loaded.data.models) |->
                                             SimpleModel(loaded.data.models[i],
                                                         componentName)]))>>),
                    cache |-> loaded.cache])
  ELSE IF componentData.selectedComponents = <<>>
  THEN [ok |-> FALSE, err |-> "ValidationError", json |-> Undefined, cache |-> cache]
  ELSE generateCompositeJSON(dir, cache, componentName, componentData.selectedComponents)

generateJSContent(componentName) == Str(<<"/** Custom ">> \o componentName \o <<" component */">>)

\* `/* ${componentName.charAt(0).toUpperCase() + componentName.slice(1)} component styles */`
cssContent(componentName) ==
  Str(<<"/* ">>
        \o (IF componentName = <<>> THEN <<>>
            ELSE <<ToUpperChar(Head(componentName))>> \o Tail(componentName))
        \o <<" component styles */">>)

\* ----------------------------------------------------- validateComponentName
\* mutant: no directory is ever found
checkComponentExistsNever(dirs, componentName) == FALSE

checkComponentExists(dirs, componentName) == componentName \in dirs

\* mutant: the existing directories are not looked at
validateComponentNameNoExistsCheck(dirs, name) ==
  IF name = <<>> THEN "ValidationError"
  ELSE IF Trim(name) = <<>> THEN "ValidationError"
  ELSE IF Head(name) \notin Range(LowerLetters) THEN "ValidationError"
  ELSE "ok"

\* "ok" for true, else the class of the violation that is returned
validateComponentName(dirs, name) ==
  IF name = <<>> THEN "ValidationError"
  ELSE IF Trim(name) = <<>> THEN "ValidationError"
  ELSE IF Head(name) \notin Range(LowerLetters) THEN "ValidationError"
  ELSE IF checkComponentExists(dirs, name) THEN "NameConflict"
  ELSE "ok"

\* ------------------------------------------------------- mapComponentNames
mapComponentNames(componentNames, availableComponents) ==
  LET found(n) == {i \in 1..Len(availableComponents) : availableComponents[i].name = n}
      isFound(n) == found(n) # {}
      isMissing(n) == found(n) = {}
      present == SelectSeq(componentNames, isFound)
  IN [mappedComponents |-> [i \in 1..Len(present) |->
                              availableComponents[Min(found(present[i]))]],
      missingComponents |-> SelectSeq(componentNames, isMissing)]

\* ------------------------------------------------------------ the inputs
\* Base component documents of blocks/form/models/form-components
BaseTemplate(title, fieldType) ==
  Obj(<<KV(<<"jcr:title">>, Str(title)),
        KV(<<"fieldType">>, Str(fieldType)),
        KV(<<"enabled">>, Str(<<"true">>))>>)

\* depth: how much of plugins.xwalk.page.template the definition has
\* (0 no plugins, 1 plugins, 2 xwalk, 3 page, 4 template)
BaseDefinition(title, id, depth) ==
  LET page == Obj(<<KV(<<"resourceType">>, Str(<<"core/fd/components/form/">> \o id))>>
                    \o IF depth >= 4 THEN <<KV(<<"template">>, BaseTemplate(title, id))>>
                       ELSE <<>>)
      xwalk == Obj(IF depth >= 3 THEN <<KV(<<"page">>, page)>> ELSE <<>>)
      plugins == Obj(IF depth >= 2 THEN <<KV(<<"xwalk">>, xwalk)>> ELSE <<>>)
  IN Obj(<<KV(<<"title">>, Str(title)), KV(<<"id">>, Str(id))>>
           \o IF depth >= 1 THEN <<KV(<<"plugins">>, plugins)>> ELSE <<>>)

BaseModel(id) ==
  Obj(<<KV(<<"id">>, Str(id)),
        KV(<<"fields">>,
           Arr(<<Obj(<<KV(<<"...">>, Str(<<FormCommonPrefix, "_basic-input-fields.json">>))>>),
                 Obj(<<KV(<<"...">>, Str(<<"../other/", "_help.json">>))>>)>>))>>)

BaseFile(title, id, depth) ==
  [json |-> TRUE,
   doc |-> Obj(<<KV(<<"definitions">>, Arr(<<BaseDefinition(title, id, depth)>>)),
                 KV(<<"models">>, Arr(<<BaseModel(id)>>))>>)]

EmptyDefinitionsFile ==
  [json |-> TRUE, doc |-> Obj(<<KV(<<"definitions">>, Arr(<<>>)), KV(<<"models">>, Arr(<<>>))>>)]

\* A document without a definitions member
MissingDefinitionsFile ==
  [json |-> TRUE, doc |-> Obj(<<KV(<<"models">>, Arr(<<>>))>>)]

\* a base document with two definitions and two models
TwoDefinitionsFile(title, id) ==
  [json |-> TRUE,
   doc |-> Obj(<<KV(<<"definitions">>,
                    Arr(<<BaseDefinition(title, id, 4),
                          BaseDefinition(title \o <<" ", "Alt">>, id \o <<"-", "alt">>, 4)>>)),
                 KV(<<"models">>,
                    Arr(<<BaseModel(id), BaseModel(id \o <<"-", "alt">>)>>))>>)]

DirEntry(id, file) == [filename |-> <<"_">> \o id \o <<".json">>, file |-> file]

TextInputId == <<"text", "-", "input">>
TextInputTitle == <<"Text", " ", "Input">>

ButtonEntry == DirEntry(<<"button">>, BaseFile(<<"Button">>, <<"button">>, 4))
EmailEntry == DirEntry(<<"email">>, BaseFile(<<"Email">>, <<"email">>, 4))
PanelEntry == DirEntry(<<"panel">>, BaseFile(<<"Panel">>, <<"panel">>, 4))
TextInputEntry == DirEntry(TextInputId, BaseFile(TextInputTitle, TextInputId, 4))
OtherEntry == [filename |-> <<"notes", ".txt">>, file |-> [json |-> FALSE, doc |-> Undefined]]

\* The directories a run can find: complete; without the panel document; with a
\* base that lacks plugins.xwalk.page; with such a panel; with a base whose
\* definitions array is empty; with a base that has plugins.xwalk.page but no
\* template in it; with a base of two definitions and two models; with two
\* bases of the same title
FormComponentDirs ==
  { <<ButtonEntry, EmailEntry, OtherEntry, PanelEntry, TextInputEntry>>,
    <<ButtonEntry, EmailEntry, TextInputEntry>>,
    <<ButtonEntry, DirEntry(<<"email">>, BaseFile(<<"Email">>, <<"email">>, 2)),
      PanelEntry, TextInputEntry>>,
    <<ButtonEntry, EmailEntry, DirEntry(<<"panel">>, BaseFile(<<"Panel">>, <<"panel">>, 1)),
      TextInputEntry>>,
    <<ButtonEntry, DirEntry(<<"email">>, EmptyDefinitionsFile), PanelEntry, TextInputEntry>>,
    <<ButtonEntry, DirEntry(<<"email">>, BaseFile(<<"Email">>, <<"email">>, 3)),
      PanelEntry, TextInputEntry>>,
    <<ButtonEntry, DirEntry(<<"email">>, TwoDefinitionsFile(<<"Email">>, <<"email">>)),
      PanelEntry, TextInputEntry>>,
    <<ButtonEntry, DirEntry(<<"button", "-", "b">>,
                            BaseFile(<<"Button">>, <<"button", "-", "b">>, 4)),
      PanelEntry, TextInputEntry>>,
    <<ButtonEntry, EmailEntry, DirEntry(<<"panel">>, MissingDefinitionsFile),
      TextInputEntry>> }

\* blocks/form/_form.json: text around the filter list, in several layouts
FormJsonHead == <<"{", "\n", " ", " ", "\"definitions\":", " ", "[", "]", ",", "\n", " ", " ">>
FormJsonTail == <<"\n", " ", " ", " ", " ", "}", "\n", " ", " ", "]", "\n", "}", "\n">>

FormJsonTexts ==
  { FormJsonHead \o newFiltersSection(<< <<"x">> >>) \o FormJsonTail,
    FormJsonHead \o newFiltersSection(<< <<"x">>, <<"a">> >>) \o FormJsonTail,
    FormJsonHead \o <<KwFilters, "[", "{", KwId, KwForm, KwComponents, "[",
                      "\"", "x", "\"", ",", " ", "'", "y", "'", "]">> \o FormJsonTail,
    FormJsonHead \o <<KwFilters, " ", "[", "{", " ", KwId, " ", KwForm, "\n", "\t",
                      KwComponents, " ", "[", "]">> \o FormJsonTail,
    FormJsonHead \o <<"\"other\":", " ", "[", "]">> \o FormJsonTail }

FormJsonFiles ==
  {[readable |-> TRUE, text |-> t] : t \in FormJsonTexts}
    \cup {[readable |-> FALSE, text |-> <<>>]}

\* models/_component-definition.json
Group(id, components) == [id |-> id, hasComponents |-> TRUE, components |-> components]

RegistryFiles ==
  { [parsed |-> TRUE, hasGroups |-> TRUE,
     groups |-> <<Group("form-components", << <<"../blocks/form/_form.json#/definitions">> >>),
                  Group("custom-components", <<>>)>>],
    [parsed |-> TRUE, hasGroups |-> TRUE,
     groups |-> <<Group("custom-components", <<IncludePath(<<"a">>), IncludePath(<<"x">>)>>)>>],
    [parsed |-> TRUE, hasGroups |-> TRUE,
     groups |-> <<Group("form-components", <<>>)>>],
    [parsed |-> TRUE, hasGroups |-> TRUE,
     groups |-> <<[id |-> "custom-components", hasComponents |-> FALSE, components |-> <<>>]>>],
    [parsed |-> FALSE, hasGroups |-> FALSE, groups |-> <<>>] }

CompleteDir == <<ButtonEntry, EmailEntry, OtherEntry, PanelEntry, TextInputEntry>>

CanonicalFormJson ==
  [readable |-> TRUE,
   text |-> FormJsonHead \o newFiltersSection(<< <<"x">> >>) \o FormJsonTail]

CompactFormJson ==
  [readable |-> TRUE,
   text |-> FormJsonHead \o <<KwFilters, "[", "{", KwId, KwForm, KwComponents, "[",
                              "\"", "x", "\"", ",", " ", "'", "y", "'", "]">> \o FormJsonTail]

EmptyRegistry ==
  [parsed |-> TRUE, hasGroups |-> TRUE,
   groups |-> <<Group("form-components", << <<"../blocks/form/_form.json#/definitions">> >>),
                Group("custom-components", <<>>)>>]

\* The shared documents an invocation can find
SharedDocuments ==
  {[formJson |-> f, registry |-> r] : f \in FormJsonFiles, r \in RegistryFiles}

\* For one invocation: every directory of base components with well-formed shared
\* documents, and the complete directory with shared documents that make a patch
\* fail or find the name registered
Worlds ==
  {[dir |-> d, formJson |-> CanonicalFormJson, registry |-> EmptyRegistry] :
      d \in FormComponentDirs}
    \cup {[dir |-> CompleteDir, formJson |-> s.formJson, registry |-> s.registry] :
            s \in {t \in SharedDocuments :
                     \/ ~t.formJson.readable /\ t.registry = EmptyRegistry
                     \/ t.formJson = CompactFormJson /\ ~t.registry.parsed
                     \/ ~HasFilterMatch(t.formJson.text) /\ t.registry.parsed
                          /\ CustomGroupIndexes(t.registry) = {}
                     \/ t.formJson = CompactFormJson /\ t.registry.parsed
                          /\ Len(t.registry.groups[1].components) = 2}}

\* What the user types as the component name
RawNames == { <<"a">>, <<"A", " ", "b">>, <<"9">>, <<"!">> }

\* args.slice(2) of a programmatic invocation
SimpleSpecArgs ==
  { << TextInputId >>, << <<"Email">> >>, << <<"nope">> >>, <<>> }

CompositeSpecArgs ==
  { << TextInputId, <<"email">>, <<"button">> >>,
    << TextInputId \o <<",">> \o <<"email">> \o <<",", " ">> \o <<"button">> >>,
    << TextInputId, TextInputId >>,
    << <<"email">> >>,
    << <<"email", ":">> >>,
    << <<"email", ":", "My", ":", "Mail">>, <<"Button">> >>,
    << <<"email", ",", "button">>, TextInputId >>,
    << <<"email", ":", " ", "My">> >>,
    << <<"nope">> >>,
    <<>> }

\* A display name typed in the names form
CustomDisplayName == <<"My", " ", "Field">>

\* ------------------------------------------------------------- the state
VARIABLES
  formComponents,   \* blocks/form/models/form-components: sequence of [filename, file]
  componentDirs,    \* the directories under blocks/form/components
  componentFiles,   \* componentFiles[name]: the files [js, css, json] of a directory
  formJson,         \* blocks/form/_form.json
  registry,         \* models/_component-definition.json
  mappings,         \* the component names blocks/form/mappings.js lists
  run               \* run[p]: the p-th invocation of the tool

vars == <<formComponents, componentDirs, componentFiles, formJson, registry, mappings, run>>

Procs == DOMAIN run

\* The invocation of Spec
TheRun == {1}

NoFiles == [js |-> Undefined, css |-> Undefined, json |-> Undefined]

NoComponent ==
  [name |-> <<>>, id |-> <<>>, filename |-> <<>>, fieldType |-> Undefined,
   resourceType |-> Undefined, template |-> Undefined, identifier |-> <<>>,
   definitions |-> <<>>, models |-> <<>>]

NoComponentData ==
  [type |-> "none", baseComponent |-> NoComponent, selectedComponents |-> <<>>]

NewRun ==
  [pc |-> "idle", mode |-> "none", type |-> "none", rawName |-> <<>>, specArgs |-> <<>>,
   componentName |-> <<>>, allComponents |-> <<>>, cache |-> <<>>,
   enabled |-> {}, selectionOrder |-> <<>>,
   componentData |-> NoComponentData,
   confirmed |-> FALSE, createdDir |-> FALSE, wrote |-> {},
   registryPatch |-> "none", mappingsUpdate |-> "none", filterPatch |-> "none",
   exitCode |-> -1, reported |-> "none", err |-> "none", cancelled |-> "no"]

\* The component a previous invocation `--simple a text-input` has left
ExistingName == <<"a">>

ExistingFiles ==
  Bind(getAllFormComponents(CompleteDir, <<>>), LAMBDA loaded :
    [js |-> generateJSContent(ExistingName),
     css |-> cssContent(ExistingName),
     json |-> Serialize(
                SynthesizeJson(CompleteDir, loaded.cache, ExistingName,
                  [type |-> "simple",
                   baseComponent |->
                      loaded.components[FindComponent(loaded.components, TextInputId)],
                   selectedComponents |-> <<>>]).json)])

\* One invocation, started in any of the file trees of Worlds, with or without
\* a component directory left by an earlier invocation
Init ==
  /\ \E w \in Worlds :
       /\ formComponents = w.dir
       /\ formJson = w.formJson
       /\ registry = w.registry
  /\ \/ /\ componentDirs = {}
        /\ componentFiles = <<>>
        /\ mappings = {}
     \/ /\ componentDirs = {ExistingName}
        /\ componentFiles = (ExistingName :> ExistingFiles)
        /\ mappings = {ExistingName}
  /\ run = [p \in TheRun |-> NewRun]

\* process.exit(code)
Exit(r, code, reported, class) ==
  [r EXCEPT !.pc = "exited", !.exitCode = code, !.reported = reported, !.err = class]

\* handleFatalError: logs the message and exits with status 1
handleFatalError(r, class) == Exit(r, 1, "error", class)

\* An error thrown inside the try block of the run: runProgrammatic logs it and
\* exits with status 1; runInteractive logs 'Operation cancelled.' and exits with 0
Thrown(r, class) ==
  IF r.mode = "programmatic" THEN Exit(r, 1, "error", class)
  ELSE Exit(r, 0, "cancelled", class)

Idle(p) == run[p].pc \in {"idle", "exited"}

SetRun(p, r) == run' = [run EXCEPT ![p] = r]

FsUnchanged == UNCHANGED <<formComponents, componentDirs, componentFiles, formJson,
                           registry, mappings>>

\* ------------------------------------------------------- programmatic mode
\* The argument check at the top of the script, then runProgrammatic is entered
EnterProgrammatic(p, type, rawName, specArgs) ==
  /\ run[p].pc = "idle"
  /\ LET r == [run[p] EXCEPT !.mode = "programmatic", !.type = type,
                             !.rawName = rawName, !.specArgs = specArgs]
         usageOk == IF type = "simple" THEN Len(specArgs) = 1 ELSE Len(specArgs) >= 1
     IN SetRun(p, IF usageOk THEN [r EXCEPT !.pc = "validate"]
                  ELSE Exit(r, 1, "error", "ValidationError"))
  /\ FsUnchanged

\* The tool run by a single operator, one invocation at a time
StartProgrammatic(p, type, rawName, specArgs) ==
  /\ \A q \in Procs \ {p} : Idle(q)
  /\ EnterProgrammatic(p, type, rawName, specArgs)

\* transformComponentName and validateComponentName of runProgrammatic
ValidateName(p) ==
  /\ run[p].pc = "validate"
  /\ \E componentName \in {transformComponentName(run[p].rawName)} :
       \E validation \in {validateComponentName(componentDirs, componentName)} :
         LET r == [run[p] EXCEPT !.componentName = componentName]
         IN SetRun(p, IF validation # "ok" THEN Thrown(r, validation)
                      ELSE [r EXCEPT !.pc = "catalog"])
  /\ FsUnchanged

\* getAllFormComponents and the resolution of the base component or of the specs
ResolveComponents(p) ==
  /\ run[p].pc = "catalog"
  /\ run[p].mode = "programmatic"
  /\ \E all \in {getAllFormComponents(formComponents, run[p].cache)} :
       LET r == [run[p] EXCEPT !.allComponents = all.components, !.cache = all.cache]
       IN
         IF r.type = "simple"
         THEN \E b \in {FindComponent(all.components, r.specArgs[1])} :
                SetRun(p, IF b = 0 THEN Thrown(r, "ValidationError")
                          ELSE [r EXCEPT !.pc = "check",
                                         !.componentData =
                                            [type |-> "simple",
                                             baseComponent |-> all.components[b],
                                             selectedComponents |-> <<>>]])
         ELSE \E parsed \in {parseComponentSpecs(r.specArgs, all.components)} :
                SetRun(p, IF ~parsed.ok THEN Thrown(r, parsed.err)
                          ELSE [r EXCEPT !.pc = "check",
                                         !.componentData =
                                            [type |-> "composite",
                                             baseComponent |-> NoComponent,
                                             selectedComponents |->
                                                parsed.selectedComponents]])
  /\ FsUnchanged

\* -------------------------------------------------------- interactive mode
StartInteractive(p) ==
  /\ run[p].pc = "idle"
  /\ \A q \in Procs \ {p} : Idle(q)
  /\ SetRun(p, [run[p] EXCEPT !.mode = "interactive", !.pc = "promptType"])
  /\ FsUnchanged

selectComponentType(p, type) ==
  /\ run[p].pc = "promptType"
  /\ SetRun(p, [run[p] EXCEPT !.type = type, !.pc = "promptName"])
  /\ FsUnchanged

\* The name prompt (it accepts only a non-blank input), the transformation and
\* the validation of the name
EnterName(p, rawComponentName) ==
  /\ run[p].pc = "promptName"
  /\ Trim(rawComponentName) # <<>>
  /\ \E componentName \in {transformComponentName(rawComponentName)} :
       \E nameValidation \in {validateComponentName(componentDirs, componentName)} :
         LET r == [run[p] EXCEPT !.rawName = rawComponentName,
                                 !.componentName = componentName]
         IN SetRun(p, IF nameValidation # "ok" THEN handleFatalError(r, nameValidation)
                      ELSE [r EXCEPT !.pc = "catalog"])
  /\ FsUnchanged

LoadChoices(p) ==
  /\ run[p].pc = "catalog"
  /\ run[p].mode = "interactive"
  /\ \E all \in {getAllFormComponents(formComponents, run[p].cache)} :
       LET r == [run[p] EXCEPT !.allComponents = all.components, !.cache = all.cache]
       IN SetRun(p, IF all.components = <<>> THEN handleFatalError(r, "NotFound")
                    ELSE [r EXCEPT !.pc = IF r.type = "simple" THEN "selectBase"
                                          ELSE "multiselect"])
  /\ FsUnchanged

selectBaseComponent(p, i) ==
  /\ run[p].pc = "selectBase"
  /\ i \in 1..Len(run[p].allComponents)
  /\ LET baseComponentName == run[p].allComponents[i].name
         b == Min({j \in 1..Len(run[p].allComponents) :
                     run[p].allComponents[j].name = baseComponentName})
     IN SetRun(p, [run[p] EXCEPT !.pc = "confirm",
                                 !.componentData =
                                    [type |-> "simple",
                                     baseComponent |-> run[p].allComponents[b],
                                     selectedComponents |-> <<>>]])
  /\ FsUnchanged

\* The keypress handler of the multi-select, for the space key on the focused
\* choice i: the prompt flips the choice's enabled flag (enabled holds the
\* positions of the enabled choices), the handler updates selectionOrder by name
ToggleChoice(p, i) ==
  /\ run[p].pc = "multiselect"
  /\ i \in 1..Len(run[p].allComponents)
  /\ i \in run[p].enabled \/ Cardinality(run[p].enabled) < MaxSelected
  /\ LET choiceName == run[p].allComponents[i].name
         wasEnabled == i \in run[p].enabled
         enabledNow == ~wasEnabled
         isNotChoice(n) == n # choiceName
     IN SetRun(p, [run[p] EXCEPT
                     !.enabled = IF wasEnabled THEN @ \ {i} ELSE @ \cup {i},
                     !.selectionOrder =
                        IF ~wasEnabled /\ enabledNow
                        THEN IF choiceName \notin Range(@) THEN Append(@, choiceName) ELSE @
                        ELSE SelectSeq(@, isNotChoice)])
  /\ FsUnchanged

\* Enter in the multi-select: the prompt's validate, then mapComponentNames
SubmitSelection(p) ==
  /\ run[p].pc = "multiselect"
  /\ Cardinality(run[p].enabled) # 0
  /\ Cardinality(run[p].enabled) <= 10
  /\ \E mapped \in {mapComponentNames(run[p].selectionOrder, run[p].allComponents)} :
        SetRun(p, IF mapped.missingComponents # <<>>
                  THEN handleFatalError(run[p], "ValidationError")
                  ELSE [run[p] EXCEPT
                          !.pc = "names",
                          !.componentData =
                             [type |-> "composite", baseComponent |-> NoComponent,
                              selectedComponents |->
                                 [j \in 1..Len(mapped.mappedComponents) |->
                                    [component |-> mapped.mappedComponents[j],
                                     customName |-> mapped.mappedComponents[j].name]]]])
  /\ FsUnchanged

\* The names form: component k (if any) gets a custom display name
promptForComponentNames(p, k) ==
  /\ run[p].pc = "names"
  /\ k \in 0..Len(run[p].componentData.selectedComponents)
  /\ SetRun(p, [run[p] EXCEPT
                  !.pc = "confirm",
                  !.componentData.selectedComponents =
                     [j \in 1..Len(@) |->
                        IF j = k THEN [@[j] EXCEPT !.customName = CustomDisplayName]
                        ELSE @[j]]])
  /\ FsUnchanged

\* mutant: the answer to the confirmation is not looked at
ConfirmIgnored(p, confirm) ==
  /\ run[p].pc = "confirm"
  /\ SetRun(p, [run[p] EXCEPT !.pc = "check", !.confirmed = confirm])
  /\ FsUnchanged

Confirm(p, confirm) ==
  /\ run[p].pc = "confirm"
  /\ SetRun(p, IF confirm THEN [run[p] EXCEPT !.pc = "check", !.confirmed = TRUE]
               ELSE [Exit(run[p], 0, "cancelled", "none") EXCEPT !.cancelled = "declined"])
  /\ FsUnchanged

PromptStates == {"promptType", "promptName", "selectBase", "multiselect", "names", "confirm"}

\* Ctrl+C in a prompt: the prompt rejects and the catch of runInteractive exits with 0
CancelPrompt(p) ==
  /\ run[p].pc \in PromptStates
  /\ SetRun(p, [Exit(run[p], 0, "cancelled", "none") EXCEPT !.cancelled = "prompt"])
  /\ FsUnchanged

\* ----------------------------------------- file creation and registration
\* checkComponentExists before the directory is made
CheckExists(p) ==
  /\ run[p].pc = "check"
  /\ SetRun(p, IF checkComponentExists(componentDirs, run[p].componentName)
               THEN IF run[p].mode = "programmatic" THEN Thrown(run[p], "NameConflict")
                    ELSE handleFatalError(run[p], "NameConflict")
               ELSE [run[p] EXCEPT !.pc = "mkdir"])
  /\ FsUnchanged

\* mutant: mkdirSync without the recursive option throws on an existing directory
MakeDirExclusive(p, ioOk) ==
  /\ run[p].pc = "mkdir"
  /\ IF ioOk /\ run[p].componentName \notin componentDirs
     THEN /\ componentDirs' = componentDirs \cup {run[p].componentName}
          /\ componentFiles' = IF run[p].componentName \in DOMAIN componentFiles
                               THEN componentFiles
                               ELSE componentFiles @@ (run[p].componentName :> NoFiles)
          /\ SetRun(p, [run[p] EXCEPT !.pc = "create", !.createdDir = TRUE])
     ELSE /\ UNCHANGED <<componentDirs, componentFiles>>
          /\ SetRun(p, Thrown(run[p], "IOError"))
  /\ UNCHANGED <<formComponents, formJson, registry, mappings>>

\* mkdirSync(targetDir, { recursive: true }); ioOk = FALSE: the call throws
MakeDir(p, ioOk) ==
  /\ run[p].pc = "mkdir"
  /\ IF ioOk
     THEN /\ componentDirs' = componentDirs \cup {run[p].componentName}
          /\ componentFiles' = IF run[p].componentName \in DOMAIN componentFiles
                               THEN componentFiles
                               ELSE componentFiles @@ (run[p].componentName :> NoFiles)
          /\ SetRun(p, [run[p] EXCEPT !.pc = "create", !.createdDir = TRUE])
     ELSE /\ UNCHANGED <<componentDirs, componentFiles>>
          /\ SetRun(p, Thrown(run[p], "IOError"))
  /\ UNCHANGED <<formComponents, formJson, registry, mappings>>

\* mutant: an error of the synthesis or of a write is swallowed
createComponentFilesSwallows(p, failAt) ==
  /\ run[p].pc = "create"
  /\ \E synth \in {SynthesizeJson(formComponents, run[p].cache, run[p].componentName,
                                   run[p].componentData)} :
     LET name == run[p].componentName
         r == [run[p] EXCEPT !.cache = synth.cache]
         written == IF ~synth.ok \/ failAt = 1 THEN {}
                    ELSE IF failAt = 0 THEN {"js", "css", "json"}
                    ELSE IF failAt = 2 THEN {"js"}
                    ELSE {"js", "css"}
     IN /\ componentFiles' =
             [componentFiles EXCEPT ![name] =
                [js |-> IF "js" \in written THEN generateJSContent(name) ELSE @.js,
                 css |-> IF "css" \in written THEN cssContent(name) ELSE @.css,
                 json |-> IF "json" \in written THEN Serialize(synth.json) ELSE @.json]]
        /\ SetRun(p, [r EXCEPT !.pc = "registry", !.wrote = written])
  /\ UNCHANGED <<formComponents, componentDirs, formJson, registry, mappings>>

\* createComponentFiles: the synthesis, then the three writeFileSync calls in the
\* order js, css, json; failAt = n > 0: the n-th write throws
createComponentFiles(p, failAt) ==
  /\ run[p].pc = "create"
  /\ \E synth \in {SynthesizeJson(formComponents, run[p].cache, run[p].componentName,
                                   run[p].componentData)} :
     LET name == run[p].componentName
         r == [run[p] EXCEPT !.cache = synth.cache]
         written == IF failAt = 0 THEN {"js", "css", "json"}
                    ELSE IF failAt = 1 THEN {}
                    ELSE IF failAt = 2 THEN {"js"}
                    ELSE {"js", "css"}
     IN IF ~synth.ok
        THEN /\ UNCHANGED componentFiles
             /\ SetRun(p, Thrown(r, synth.err))
        ELSE /\ componentFiles' =
                  [componentFiles EXCEPT ![name] =
                     [js |-> IF "js" \in written THEN generateJSContent(name) ELSE @.js,
                      css |-> IF "css" \in written THEN cssContent(name) ELSE @.css,
                      json |-> IF "json" \in written THEN Serialize(synth.json) ELSE @.json]]
             /\ SetRun(p, IF failAt = 0 THEN [r EXCEPT !.pc = "registry", !.wrote = written]
                          ELSE [Thrown(r, "IOError") EXCEPT !.wrote = written])
  /\ UNCHANGED <<formComponents, componentDirs, formJson, registry, mappings>>

\* mutant: a failed registry patch is thrown instead of logged
PatchRegistryThrows(p) ==
  /\ run[p].pc = "registry"
  /\ \E res \in {updateComponentDefinition(registry, run[p].componentName)} :
        /\ registry' = res.file
        /\ SetRun(p, IF res.ok
                     THEN [run[p] EXCEPT !.pc = "mappings", !.registryPatch = res.outcome]
                     ELSE [Thrown(run[p], "IOError") EXCEPT !.registryPatch = res.outcome])
  /\ UNCHANGED <<formComponents, componentDirs, componentFiles, formJson, mappings>>

\* updateComponentDefinition(componentName): a failure is logged as a warning
PatchRegistry(p) ==
  /\ run[p].pc = "registry"
  /\ \E res \in {updateComponentDefinition(registry, run[p].componentName)} :
        /\ registry' = res.file
        /\ SetRun(p, [run[p] EXCEPT !.pc = "mappings", !.registryPatch = res.outcome])
  /\ UNCHANGED <<formComponents, componentDirs, componentFiles, formJson, mappings>>

\* updateMappings(): lists the component directories in mappings.js;
\* ioOk = FALSE: the call throws
updateMappings(p, ioOk) ==
  /\ run[p].pc = "mappings"
  /\ IF ioOk
     THEN /\ mappings' = componentDirs
          /\ SetRun(p, [run[p] EXCEPT !.pc = "filter", !.mappingsUpdate = "done"])
     ELSE /\ UNCHANGED mappings
          /\ SetRun(p, [Thrown(run[p], "IOError") EXCEPT !.mappingsUpdate = "failed"])
  /\ UNCHANGED <<formComponents, componentDirs, componentFiles, formJson, registry>>

\* mutant: the filter list is left alone when the registry patch has failed
PatchFilterAfterRegistry(p) ==
  /\ run[p].pc = "filter"
  /\ \E res \in {IF run[p].registryPatch = "failed"
                  THEN [file |-> formJson, ok |-> FALSE, outcome |-> "none"]
                  ELSE updateFormJson(formJson, run[p].componentName)} :
        /\ formJson' = res.file
        /\ SetRun(p, [Exit(run[p], 0, "success", "none") EXCEPT !.filterPatch = res.outcome])
  /\ UNCHANGED <<formComponents, componentDirs, componentFiles, registry, mappings>>

\* updateFormJson(componentName), then the success message: the run ends with status 0
PatchFilter(p) ==
  /\ run[p].pc = "filter"
  /\ \E res \in {updateFormJson(formJson, run[p].componentName)} :
        /\ formJson' = res.file
        /\ SetRun(p, [Exit(run[p], 0, "success", "none") EXCEPT !.filterPatch = res.outcome])
  /\ UNCHANGED <<formComponents, componentDirs, componentFiles, registry, mappings>>

\* ------------------------------------------------------ the specification
\* The positions of a list of choices: the catalog has at most Len(CompleteDir) entries
ChoiceIndexes == 1..Len(CompleteDir)

Next ==
  \E p \in TheRun :
    \/ StartInteractive(p)
    \/ \E rawName \in RawNames, specArgs \in SimpleSpecArgs :
         StartProgrammatic(p, "simple", rawName, specArgs)
    \/ \E rawName \in RawNames, specArgs \in CompositeSpecArgs :
         StartProgrammatic(p, "composite", rawName, specArgs)
    \/ ValidateName(p)
    \/ ResolveComponents(p)
    \/ \E type \in {"simple", "composite"} : selectComponentType(p, type)
    \/ \E rawName \in RawNames : EnterName(p, rawName)
    \/ LoadChoices(p)
    \/ \E i \in ChoiceIndexes : selectBaseComponent(p, i)
    \/ \E i \in ChoiceIndexes : ToggleChoice(p, i)
    \/ SubmitSelection(p)
    \/ \E k \in 0..MaxSelected : promptForComponentNames(p, k)
    \/ \E confirm \in BOOLEAN : Confirm(p, confirm)
    \/ CancelPrompt(p)
    \/ CheckExists(p)
    \/ \E ioOk \in BOOLEAN : MakeDir(p, ioOk)
    \/ \E failAt \in 0..3 : createComponentFiles(p, failAt)
    \/ PatchRegistry(p)
    \/ \E ioOk \in BOOLEAN : updateMappings(p, ioOk)
    \/ PatchFilter(p)

Spec == Init /\ [][Next]_vars

\* ------------------------------------------- successive invocations
\* NumRuns programmatic invocations one after the other, over every pair of shared
\* documents, without I/O faults
InitSeq ==
  /\ formComponents = CompleteDir
  /\ \E s \in SharedDocuments :
       /\ formJson = s.formJson
       /\ registry = s.registry
  /\ componentDirs = {}
  /\ componentFiles = <<>>
  /\ mappings = {}
  /\ run = [p \in 1..NumRuns |-> NewRun]

SeqRawNames == { <<"a">>, <<"A", " ", "b">>, <<"x">> }

\* Invocation p starts when the invocations before it have ended
StartSeq(p, type, rawName, specArgs) ==
  /\ \A q \in Procs : q < p => run[q].pc = "exited"
  /\ StartProgrammatic(p, type, rawName, specArgs)

NextSeq ==
  \E p \in 1..NumRuns :
    \/ \E rawName \in SeqRawNames : StartSeq(p, "simple", rawName, << TextInputId >>)
    \/ \E rawName \in SeqRawNames : StartSeq(p, "composite", rawName, << <<"email">> >>)
    \/ ValidateName(p)
    \/ ResolveComponents(p)
    \/ CheckExists(p)
    \/ MakeDir(p, TRUE)
    \/ createComponentFiles(p, 0)
    \/ PatchRegistry(p)
    \/ updateMappings(p, TRUE)
    \/ PatchFilter(p)

SpecSeq == InitSeq /\ [][NextSeq]_vars

\* ------------------------------------------- concurrent invocations
\* NumRuns programmatic invocations started independently of each other, as
\* separate processes over the same file tree; each step is one process's
\* synchronous stretch of file-system calls
InitRace ==
  /\ formComponents = CompleteDir
  /\ formJson = CanonicalFormJson
  /\ registry = EmptyRegistry
  /\ componentDirs = {}
  /\ componentFiles = <<>>
  /\ mappings = {}
  /\ run = [p \in 1..NumRuns |-> NewRun]

\* Every invocation targets the name 'a': `--simple a text-input` or
\* `--composite A email`
NextRace ==
  \E p \in 1..NumRuns :
    \/ EnterProgrammatic(p, "simple", <<"a">>, << TextInputId >>)
    \/ EnterProgrammatic(p, "composite", <<"A">>, << <<"email">> >>)
    \/ ValidateName(p)
    \/ ResolveComponents(p)
    \/ CheckExists(p)
    \/ MakeDir(p, TRUE)
    \/ createComponentFiles(p, 0)
    \/ PatchRegistry(p)
    \/ updateMappings(p, TRUE)
    \/ PatchFilter(p)

SpecRace == InitRace /\ [][NextRace]_vars

\* ------------------------------------------- composites of many children
\* A catalog with two identifiers, one of which ends in a digit
XId == <<"x">>
X1Id == <<"x", "1">>
SevenId == <<"7">>
SevenEntry == DirEntry(SevenId, BaseFile(<<"Seven">>, SevenId, 4))
XEntry == DirEntry(XId, BaseFile(<<"X">>, XId, 4))
X1Entry == DirEntry(X1Id, BaseFile(<<"X", "1">>, X1Id, 4))
DigitDir == <<SevenEntry, PanelEntry, XEntry, X1Entry>>

\* the longest list of children given on the command line
MaxChildren == 11

\* args.slice(2) of `--composite a <ids...>`: every list of up to three of the
\* identifiers 7, x and x1, and the longer lists that are x or x1 followed by x's
ChildLists ==
  UNION {[1..n -> {SevenId, XId, X1Id}] : n \in 1..3}
    \cup {[i \in 1..n |-> IF i = 1 THEN first ELSE XId] :
            n \in 4..MaxChildren, first \in {XId, X1Id}}

InitLists ==
  /\ formComponents = DigitDir
  /\ formJson = CanonicalFormJson
  /\ registry = EmptyRegistry
  /\ componentDirs = {}
  /\ componentFiles = <<>>
  /\ mappings = {}
  /\ run = [p \in TheRun |-> NewRun]

NextLists ==
  \E p \in TheRun :
    \/ \E specArgs \in ChildLists : StartProgrammatic(p, "composite", <<"a">>, specArgs)
    \/ ValidateName(p)
    \/ ResolveComponents(p)
    \/ CheckExists(p)
    \/ MakeDir(p, TRUE)
    \/ createComponentFiles(p, 0)
    \/ PatchRegistry(p)
    \/ updateMappings(p, TRUE)
    \/ PatchFilter(p)

SpecLists == InitLists /\ [][NextLists]_vars

\* ------------------------------------------------ runs over many raw names
\* the longest raw name typed
MaxRawLen == 3

\* the characters of a raw name: a letter of each case, a digit, the separators
\* the transformation keeps or makes, white space and a character it removes
RawChars == {"a", "B", "9", "-", "_", " ", "!"}

RawStrings == UNION {[1..n -> RawChars] : n \in 0..MaxRawLen}

\* `--simple <raw name> text-input` in the complete catalog, with or without the
\* directory an earlier invocation has left
InitNames ==
  /\ formComponents = CompleteDir
  /\ formJson = CanonicalFormJson
  /\ registry = EmptyRegistry
  /\ \/ /\ componentDirs = {}
        /\ componentFiles = <<>>
        /\ mappings = {}
     \/ /\ componentDirs = {ExistingName}
        /\ componentFiles = (ExistingName :> ExistingFiles)
        /\ mappings = {ExistingName}
  /\ run = [p \in TheRun |-> NewRun]

NextNames ==
  \E p \in TheRun :
    \/ \E rawName \in RawStrings : StartProgrammatic(p, "simple", rawName, <<TextInputId>>)
    \/ ValidateName(p)
    \/ ResolveComponents(p)
    \/ CheckExists(p)
    \/ MakeDir(p, TRUE)
    \/ createComponentFiles(p, 0)
    \/ PatchRegistry(p)
    \/ updateMappings(p, TRUE)
    \/ PatchFilter(p)

SpecNames == InitNames /\ [][NextNames]_vars

\* ---------------------------------------------- runs over many base models
\* The values a member of a base model can have: include paths with the
\* form-common prefix at the start, with another prefix, with the form-common
\* prefix further in; an array and an object that hold a path
PathValues ==
  { Str(<<FormCommonPrefix, "x.json">>),
    Str(<<"../other/", "x.json">>),
    Str(<<"a/", FormCommonPrefix, "x.json">>),
    Arr(<<Str(<<FormCommonPrefix, "x.json">>)>>),
    Obj(<<KV(<<"...">>, Str(<<FormCommonPrefix, "y.json">>))>>) }

PathKeys == { <<"...">>, <<"path">>, <<"__proto__">> }

\* models[0] of _email.json: { id, fields: [ {k1: v1}, {k2: v2} ] }
PathModels ==
  { Obj(<<KV(<<"id">>, Str(<<"email">>)),
          KV(<<"fields">>, Arr(<<Obj(<<KV(k1, v1)>>), Obj(<<KV(k2, v2)>>)>>))>>) :
      k1 \in PathKeys, v1 \in PathValues, k2 \in {<<"...">>}, v2 \in PathValues }

\* `--simple a email` in a catalog whose email document has one of the models
InitPaths ==
  /\ \E model \in PathModels :
       formComponents =
         <<ButtonEntry,
           DirEntry(<<"email">>,
                    [json |-> TRUE,
                     doc |-> Obj(<<KV(<<"definitions">>,
                                      Arr(<<BaseDefinition(<<"Email">>, <<"email">>, 4)>>)),
                                   KV(<<"models">>, Arr(<<model>>))>>)]),
           PanelEntry, TextInputEntry>>
  /\ formJson = CanonicalFormJson
  /\ registry = EmptyRegistry
  /\ componentDirs = {}
  /\ componentFiles = <<>>
  /\ mappings = {}
  /\ run = [p \in TheRun |-> NewRun]

NextPaths ==
  \E p \in TheRun :
    \/ StartProgrammatic(p, "simple", <<"a">>, << <<"email">> >>)
    \/ ValidateName(p)
    \/ ResolveComponents(p)
    \/ CheckExists(p)
    \/ MakeDir(p, TRUE)
    \/ createComponentFiles(p, 0)
    \/ PatchRegistry(p)
    \/ updateMappings(p, TRUE)
    \/ PatchFilter(p)

SpecPaths == InitPaths /\ [][NextPaths]_vars

\* ------------------------------------------------------------ properties
Exited(p) == run[p].pc = "exited"

AllFiles == {"js", "css", "json"}

\* The three files of the component of run p are on disk
FilesOnDisk(p) ==
  /\ run[p].componentName \in DOMAIN componentFiles
  /\ componentFiles[run[p].componentName].js # Undefined
  /\ componentFiles[run[p].componentName].css # Undefined
  /\ componentFiles[run[p].componentName].json # Undefined

\* Run p has made no directory, written no file and patched no shared document
NoMutationBy(p) ==
  /\ ~run[p].createdDir
  /\ run[p].wrote = {}
  /\ run[p].registryPatch = "none"
  /\ run[p].mappingsUpdate = "none"
  /\ run[p].filterPatch = "none"

RejectionClasses == {"NotFound", "InvalidSchema", "NameConflict", "ValidationError"}

\* C1: a run rejected with NotFound, InvalidSchema, NameConflict or ValidationError
\* has ended without creating the component directory, without writing any of the
\* three files and without touching a shared document.
C1_RejectedRunWritesNothing ==
  \A p \in Procs :
    (Exited(p) /\ run[p].err \in RejectionClasses) =>
      /\ NoMutationBy(p)
      /\ (run[p].err # "NameConflict" => run[p].componentName \notin componentDirs)

\* C2: when the filter-list patch appends a name, the text before the captured list
\* body and the text from the closing bracket on are the same before and after.
C2_PatchTouchesOnlyListBody ==
  [][\A p \in Procs :
       (run[p].pc = "filter" /\ run'[p].filterPatch = "added") =>
         \A m \in {FilterMatch(formJson.text)} :
           LET old == formJson.text
               new == formJson'.text
               tail == Len(old) - m.close + 1
           IN /\ Len(new) >= (m.bodyStart - 1) + tail
              /\ SubSeq(new, 1, m.bodyStart - 1) = SubSeq(old, 1, m.bodyStart - 1)
              /\ SubSeq(new, Len(new) - tail + 1, Len(new)) = SubSeq(old, m.close, Len(old))
    ]_vars

\* The names a run can target
TargetNames == {transformComponentName(n) : n \in RawNames \cup SeqRawNames} \ {<<>>}

\* C3: applying the filter-list patch a second time for the same name leaves the
\* document of the first application unchanged, and a patch for a name that is
\* already in the list succeeds without writing the document.
C3_FilterPatchIdempotent ==
  /\ [](\A n \in TargetNames :
          \A once \in {updateFormJson(formJson, n)} :
            \A twice \in {updateFormJson(once.file, n)} :
              /\ twice.file = once.file
              /\ once.ok => twice.outcome = "present")
  /\ [][\A p \in Procs :
          (run[p].pc = "filter" /\ formJson.readable /\ HasFilterMatch(formJson.text)
             /\ run[p].componentName \in Range(CurrentFilterComponents(formJson.text))) =>
            /\ formJson' = formJson
            /\ run'[p].filterPatch = "present"
            /\ run'[p].reported = "success"
     ]_vars

C3_Witness ==
  \E p, q \in Procs :
    /\ run[p].filterPatch = "added"
    /\ run[p].componentName \in Range(CurrentFilterComponents(formJson.text))
    /\ run[q].filterPatch = "present"

\* The entries of the custom-components group that point at component n
EntriesFor(n) ==
  IF registry.parsed /\ registry.hasGroups /\ CustomGroupIndexes(registry) # {}
  THEN LET c == registry.groups[Min(CustomGroupIndexes(registry))].components
       IN {i \in 1..Len(c) : c[i] = IncludePath(n)}
  ELSE {}

\* C4: the registry patch appends the include entry of the component unless the
\* group already has an entry with that path, in which case it succeeds and leaves
\* the registry as it is; the group never holds two entries for one name.
C4_RegistryOneEntryPerName ==
  /\ [](\A n \in TargetNames : Cardinality(EntriesFor(n)) <= 1)
  /\ [][\A p \in Procs :
          (run[p].pc = "registry" /\ run'[p].registryPatch # "failed") =>
            LET g == Min(CustomGroupIndexes(registry))
                before == registry.groups[g].components
                after == registry'.groups[g].components
            IN IF EntriesFor(run[p].componentName) # {}
               THEN registry' = registry /\ run'[p].registryPatch = "present"
               ELSE /\ after = Append(before, IncludePath(run[p].componentName))
                    /\ registry' = [registry EXCEPT !.groups[g].components = after]
                    /\ run'[p].registryPatch = "added"
     ]_vars

C4_Witness ==
  \E p, q \in Procs :
    /\ run[p].registryPatch = "added"
    /\ run[q].registryPatch = "present"
    /\ Cardinality(EntriesFor(run[q].componentName)) = 1

\* C5: a run in which a shared-document patch failed keeps its three component
\* files and, unless updateMappings threw, ends with status 0 reporting success.
C5_PatchFailureIsWarningOnly ==
  \A p \in Procs :
    (run[p].registryPatch = "failed" \/ run[p].filterPatch = "failed") =>
      /\ FilesOnDisk(p)
      /\ run[p].wrote = AllFiles
      /\ (Exited(p) /\ run[p].mappingsUpdate # "failed") =>
           run[p].exitCode = 0 /\ run[p].reported = "success"

C5_Witness ==
  \E p \in Procs :
    /\ Exited(p)
    /\ run[p].registryPatch = "failed"
    /\ run[p].filterPatch = "failed"
    /\ run[p].reported = "success"
    /\ FilesOnDisk(p)

FsChanged ==
  \/ componentDirs' # componentDirs
  \/ componentFiles' # componentFiles
  \/ formJson' # formJson
  \/ registry' # registry
  \/ mappings' # mappings

\* C6: a run has patched a shared document, or raised a patch warning, only with
\* its behavior stub, style stub and schema document all written; a shared document
\* changes only in a step of a run whose three files are on disk.
C6_PatchOnlyAfterFiles ==
  /\ [](\A p \in Procs :
          (run[p].registryPatch # "none" \/ run[p].filterPatch # "none") =>
            run[p].wrote = AllFiles /\ FilesOnDisk(p))
  /\ [][(registry' # registry \/ formJson' # formJson) =>
          \E p \in Procs :
            /\ run'[p] # run[p]
            /\ run[p].wrote = AllFiles
            /\ FilesOnDisk(p)
     ]_vars

C6_Witness ==
  \E p \in Procs :
    /\ run[p].registryPatch = "added"
    /\ run[p].filterPatch = "failed"
    /\ FilesOnDisk(p)

FailureClasses == RejectionClasses \cup {"IOError"}

\* C7: a run that ended in a validation, synthesis or I/O failure has status 1, in
\* both modes; status 0 is the status of a successful creation or of a cancellation
\* by the user, and a cancelled run has changed nothing on disk.
C7_FailureExitsWithOne ==
  \A p \in Procs :
    Exited(p) =>
      /\ run[p].err \in FailureClasses => run[p].exitCode = 1
      /\ run[p].exitCode = 0 =>
           \/ run[p].reported = "success" /\ FilesOnDisk(p)
           \/ run[p].cancelled # "no"
      /\ run[p].cancelled # "no" => NoMutationBy(p)

\* C8: an interactive run makes no directory and writes no file or shared document
\* before the confirmation is answered with yes; a declined run has written nothing.
C8_NoWriteBeforeConfirmation ==
  /\ [](\A p \in Procs :
          (run[p].mode = "interactive" /\ ~run[p].confirmed) => NoMutationBy(p))
  /\ [](\A p \in Procs : run[p].cancelled = "declined" => NoMutationBy(p) /\ Exited(p))
  /\ [][FsChanged =>
          \E p \in Procs :
            /\ run'[p] # run[p]
            /\ run[p].mode = "interactive" => run[p].confirmed
     ]_vars

C8_Witness ==
  \E p \in Procs :
    /\ run[p].mode = "interactive"
    /\ run[p].cancelled = "declined"
    /\ run[p].componentData.type = "composite"

\* The template of the first definition of the schema document run p has written
WrittenTemplate(p) ==
  Get(PageOf(Get(componentFiles[run[p].componentName].json, <<"definitions">>).items[1]),
      <<"template">>)

WroteComposite(p) ==
  /\ "json" \in run[p].wrote
  /\ run[p].componentData.type = "composite"

\* The keys of the child entries: the last keys of the template, one per child
ChildKeys(p) ==
  Bind(Keys(WrittenTemplate(p)), LAMBDA keys :
    SubSeq(keys, Len(keys) - Len(run[p].componentData.selectedComponents) + 1, Len(keys)))

\* key is id with every hyphen turned into an underscore, followed by suffix
IsNormalizedKey(key, id, suffix) ==
  /\ Len(key) = Len(id) + Len(suffix)
  /\ \A j \in 1..Len(id) : key[j] = (IF id[j] = "-" THEN "_" ELSE id[j])
  /\ \A j \in 1..Len(suffix) : key[Len(id) + j] = suffix[j]

\* C9: in a composite the key of the child at 0-based position i is its identifier
\* with hyphens replaced by underscores, followed by i+1 exactly when more than one
\* child was selected; one child gets no suffix, two equal children get 1 and 2.
C9_ChildKeys ==
  \A p \in Procs :
    WroteComposite(p) =>
      \A keys \in {ChildKeys(p)} :
      LET sel == run[p].componentData.selectedComponents
      IN /\ Len(keys) = Len(sel)
         /\ \A i \in 1..Len(sel) :
              IsNormalizedKey(keys[i], sel[i].component.id,
                              IF Len(sel) > 1 THEN <<Digits[i + 1]>> ELSE <<>>)
         /\ (Len(sel) = 2 /\ sel[1].component.id = TextInputId
                          /\ sel[2].component.id = TextInputId) =>
              keys = << <<"text", "_", "input", "1">>, <<"text", "_", "input", "2">> >>

C9_Witness ==
  \E p \in Procs :
    /\ WroteComposite(p)
    /\ Len(run[p].componentData.selectedComponents) = 2
    /\ run[p].componentData.selectedComponents[1].component.id = TextInputId
    /\ run[p].componentData.selectedComponents[2].component.id = TextInputId

FromTextInputEmailButton(p) ==
  /\ WroteComposite(p)
  /\ [i \in 1..Len(run[p].componentData.selectedComponents) |->
        run[p].componentData.selectedComponents[i].component.id]
       = <<TextInputId, <<"email">>, <<"button">> >>

\* C10 as stated: a composite from text-input, email and button has the child keys
\* text_input, email and button, without suffix.
C10_UnsuffixedKeys ==
  \A p \in Procs :
    FromTextInputEmailButton(p) =>
      ChildKeys(p) = << <<"text", "_", "input">>, <<"email">>, <<"button">> >>

\* C10 amended: a composite from text-input, email and button has exactly the child
\* keys text_input1, email2 and button3.
C10_SuffixedKeys ==
  \A p \in Procs :
    FromTextInputEmailButton(p) =>
      ChildKeys(p) = << <<"text", "_", "input", "1">>, <<"email", "2">>, <<"button", "3">> >>

C10_Witness ==
  \E p \in Procs : FromTextInputEmailButton(p) /\ Exited(p) /\ run[p].reported = "success"

\* The child entries of the template run p has written: its object-valued members
ChildEntries(p) == SelectSeq(WrittenTemplate(p).items, LAMBDA m : m.v.kind = "obj")

\* C11: for two or more selected children the derived template keys are pairwise
\* distinct, and the written template holds exactly one child entry per child.
C11_ChildKeysDistinct ==
  \A p \in Procs :
    (WroteComposite(p) /\ Len(run[p].componentData.selectedComponents) >= 2) =>
      LET sel == run[p].componentData.selectedComponents
      IN /\ \A i, j \in 1..Len(sel) :
              i # j => ElementName(sel, i) # ElementName(sel, j)
         /\ Len(ChildEntries(p)) = Len(sel)

\* What run p selected, in the order of the selection: the names toggled on
\* (interactive) or the identifiers given as arguments (programmatic)
SelectionOf(p) ==
  IF run[p].mode = "interactive" THEN run[p].selectionOrder
  ELSE [i \in 1..Len(SpecsOf(run[p].specArgs)) |->
          ParseSpec(SpecsOf(run[p].specArgs)[i]).componentId]

\* C12: the child entries of a written composite template are the selected
\* children in the order of their selection, whatever the order of the catalog:
\* when the template holds one entry per selected child, its i-th entry is the
\* entry of the i-th child selected.
C12_ChildrenInSelectionOrder ==
  \A p \in Procs :
    WroteComposite(p) =>
      \A entries \in {ChildEntries(p)} :
        \A chosen \in {SelectionOf(p)} :
          Len(entries) = Len(chosen) =>
            \A i \in 1..Len(chosen) :
               \E k \in 1..Len(run[p].allComponents) :
                 /\ \/ run[p].allComponents[k].name = chosen[i]
                    \/ run[p].allComponents[k].id = chosen[i]
                 /\ Get(entries[i].v, <<"sling:resourceType">>)
                      = run[p].allComponents[k].resourceType
                 /\ Get(entries[i].v, <<"fieldType">>) = run[p].allComponents[k].fieldType

\* C13: in a written composite the entry of every child has the display name
\* chosen for it as its title (the custom name, or the child's own name when none
\* was given), whatever title the child's template has, and every other member
\* of the child's template keeps its value.
C13_ChildTitleIsDisplayName ==
  \A p \in Procs :
    WroteComposite(p) =>
      \A sel \in {run[p].componentData.selectedComponents} :
        \A i \in 1..Len(sel) :
          \A entry \in {Get(WrittenTemplate(p), ElementName(sel, i))} :
            /\ Get(entry, <<"jcr:title">>)
                 = Str(IF sel[i].customName # <<>> THEN sel[i].customName
                       ELSE sel[i].component.name)
            /\ \A m \in Range(sel[i].component.template.items) :
                 m.k # <<"jcr:title">> => Get(entry, m.k) = m.v

C13_Witness ==
  \E p \in Procs :
    /\ WroteComposite(p)
    /\ \E i \in 1..Len(run[p].componentData.selectedComponents) :
         \E c \in {run[p].componentData.selectedComponents[i]} :
           /\ c.customName = CustomDisplayName
           /\ Get(c.component.template, <<"jcr:title">>) = Str(c.component.name)
           /\ Get(c.component.template, <<"enabled">>) = Str(<<"true">>)
           /\ Get(Get(WrittenTemplate(p),
                      ElementName(run[p].componentData.selectedComponents, i)),
                  <<"jcr:title">>) = Str(CustomDisplayName)

\* out is the value in with every string under the key "..." that begins with
\* ../form-common/ moved to ../../models/form-common/, and nothing else changed
RECURSIVE IsRewriteOf(_, _)
IsRewriteOf(in, out) ==
  IF in.kind \in {"obj", "arr"}
  THEN /\ out.kind = in.kind
       /\ Len(out.items) = Len(in.items)
       /\ \A i \in 1..Len(in.items) :
            IF in.kind = "arr" THEN IsRewriteOf(in.items[i], out.items[i])
            ELSE /\ out.items[i].k = in.items[i].k
                 /\ IF in.items[i].k = <<"...">> /\ in.items[i].v.kind = "str"
                    THEN out.items[i].v
                           = Str(IF in.items[i].v.str # <<>>
                                      /\ Head(in.items[i].v.str) = FormCommonPrefix
                                 THEN <<ModelsFormCommonPrefix>> \o Tail(in.items[i].v.str)
                                 ELSE in.items[i].v.str)
                    ELSE IsRewriteOf(in.items[i].v, out.items[i].v)
  ELSE out = in

\* the first model of the panel document of the catalog
PanelModelOnDisk ==
  Get(DirFile(formComponents, <<"_", "panel", ".json">>).doc, <<"models">>).items[1]

\* C14: a written composite has exactly one model: the panel's own model with its
\* include paths rewritten and its id set to the target name, whatever children
\* were selected.
C14_CompositeModelIsPanelModel ==
  \A p \in Procs :
    WroteComposite(p) =>
      \A models \in {Get(componentFiles[run[p].componentName].json, <<"models">>)} :
        /\ models.kind = "arr"
        /\ Len(models.items) = 1
        /\ Get(models.items[1], <<"id">>) = Str(run[p].componentName)
        /\ Keys(models.items[1]) = Keys(PanelModelOnDisk)
        /\ \A k \in Range(Keys(PanelModelOnDisk)) \ {<<"id">>} :
             IsRewriteOf(Get(PanelModelOnDisk, k), Get(models.items[1], k))

C14_Witness ==
  \E p \in Procs :
    /\ WroteComposite(p)
    /\ Len(run[p].componentData.selectedComponents) = 3
    /\ Get(PanelModelOnDisk, <<"id">>) = Str(<<"panel">>)
    /\ run[p].componentName # <<"panel">>
    /\ \E f \in Range(Get(PanelModelOnDisk, <<"fields">>).items) :
         Get(f, <<"...">>).str[1] = FormCommonPrefix
    /\ \E f \in Range(Get(Get(componentFiles[run[p].componentName].json,
                                <<"models">>).items[1], <<"fields">>).items) :
         Get(f, <<"...">>).str[1] = ModelsFormCommonPrefix

WroteSimple(p) ==
  /\ "json" \in run[p].wrote
  /\ run[p].componentData.type = "simple"

\* the name with its first letter in upper case and its hyphens as spaces
FormattedName(name) ==
  [i \in 1..Len(name) |-> IF i = 1 THEN ToUpperChar(name[1])
                          ELSE IF name[i] = "-" THEN " " ELSE name[i]]

C16_NoDocumentWithoutTemplate ==
  \A p \in Procs :
    WroteSimple(p) =>
      \A d \in Range(run[p].componentData.baseComponent.definitions) :
        Get(PageOf(d), <<"template">>).kind = "obj"

\* the run has transformed the raw name it was given
NameComputed(p) == run[p].mode = "programmatic" /\ run[p].pc \notin {"idle", "validate"}

\* C18: the transformation gives a name for every raw name, and transforming
\* that name again gives the same name.
C18_TransformIdempotent ==
  \A p \in Procs :
    NameComputed(p) =>
      \A name \in {run[p].componentName} :
        /\ name = transformComponentName(run[p].rawName)
        /\ name \in Seq(RawChars \cup Range(LowerLetters))
        /\ transformComponentName(name) = name

C18_Witness ==
  \E p \in Procs :
    /\ NameComputed(p)
    /\ run[p].rawName = <<"!", "-", "B">>
    /\ run[p].componentName = <<"b">>

\* ^[a-z][a-z0-9_-]*$
MatchesNamePattern(name) ==
  /\ name # <<>>
  /\ Head(name) \in Range(LowerLetters)
  /\ \A i \in 1..Len(name) : name[i] \in Range(LowerLetters) \cup Range(Digits) \cup {"_", "-"}

\* C19: every name the transformation produces from a raw name that is not
\* empty matches ^[a-z][a-z0-9_-]*$.
C19_NamesMatchPattern ==
  \A p \in Procs :
    (NameComputed(p) /\ run[p].rawName # <<>>) => MatchesNamePattern(run[p].componentName)

\* C20: the validation of a transformed name succeeds exactly when the name is
\* not empty, starts with a letter and has no component directory; otherwise the
\* run ends with the violation that was returned; the step changes no file.
C20_ValidateExactly ==
  [][ \A p \in Procs :
        (/\ run[p].pc \in {"validate", "promptName"}
         /\ run'[p] # run[p]
         /\ run'[p].cancelled = "no") =>
          \A name \in {run'[p].componentName} :
            /\ run'[p].pc = "catalog"
                 <=> /\ name # <<>>
                     /\ Head(name) \in Range(LowerLetters) \cup Range(UpperLetters)
                     /\ name \notin componentDirs
            /\ run'[p].pc # "catalog" =>
                 /\ run'[p].pc = "exited"
                 /\ run'[p].err = IF name \in componentDirs THEN "NameConflict"
                                  ELSE "ValidationError"
            /\ UNCHANGED <<formComponents, componentDirs, componentFiles, formJson,
                           registry, mappings>>
    ]_vars

C20_Witness ==
  \E p \in Procs :
    /\ run[p].pc = "exited"
    /\ run[p].err = "NameConflict"
    /\ run[p].componentName = ExistingName
    /\ run[p].componentName \in componentDirs
    /\ ~run[p].createdDir

\* C17: the path rewriting changes, in any document, only the strings under
\* the key "..." that begin with ../form-common/, and returns every other value,
\* key, nesting and array order as it was: each model of a written simple
\* component is the base's model with those strings rewritten (and the id set).
C17_RewriteOnlyFormCommon ==
  \A p \in Procs :
    WroteSimple(p) =>
      \A in \in {run[p].componentData.baseComponent.models} :
        \A out \in {Get(componentFiles[run[p].componentName].json, <<"models">>).items} :
          /\ Len(out) = Len(in)
          /\ \A i \in 1..Len(in) :
               /\ Keys(out[i]) = Keys(in[i])
               /\ \A k \in Range(Keys(in[i])) \ {<<"id">>} :
                    IsRewriteOf(Get(in[i], k), Get(out[i], k))

\* a programmatic composite run that has loaded the catalog and parsed its specs
SpecsParsed(p) ==
  /\ run[p].mode = "programmatic"
  /\ run[p].type = "composite"
  /\ run[p].allComponents # <<>>
  /\ run[p].pc # "catalog"

\* The specs an argument list stands for: the comma-separated pieces of the only
\* argument when it holds a comma, else the arguments themselves
SpecsGiven(args) ==
  IF Len(args) = 1 /\ \E i \in 1..Len(args[1]) : args[1][i] = ","
  THEN [i \in 1..Len(SplitOn(args[1], ",")) |-> Trim(SplitOn(args[1], ",")[i])]
  ELSE args

\* the text of a spec before its first colon, and after it (colons included)
BeforeColon(spec) ==
  IF \E i \in 1..Len(spec) : spec[i] = ":"
  THEN SubSeq(spec, 1, Min({i \in 1..Len(spec) : spec[i] = ":"}) - 1)
  ELSE spec

AfterColon(spec) ==
  SubSeq(spec, Min({i \in 1..Len(spec) : spec[i] = ":"}) + 1, Len(spec))

Named(allComponents, identifier) ==
  {k \in 1..Len(allComponents) :
     allComponents[k].name = identifier \/ allComponents[k].id = identifier}

\* C21: only a single argument that holds a comma is split on commas; in every
\* other case each argument is one spec, commas included. The parsed list has one
\* entry per spec, in the order given, and a spec that names no component makes
\* the run fail.
C21_CommaSplitOnlySingleArgument ==
  \A p \in Procs :
    SpecsParsed(p) =>
      \A specs \in {SpecsGiven(run[p].specArgs)} :
        \A sel \in {run[p].componentData.selectedComponents} :
          /\ run[p].componentData.type = "composite" =>
               /\ Len(sel) = Len(specs)
               /\ \A i \in 1..Len(specs) :
                    \/ sel[i].component.name = Trim(BeforeColon(specs[i]))
                    \/ sel[i].component.id = Trim(BeforeColon(specs[i]))
          /\ (\E i \in 1..Len(specs) :
                 Named(run[p].allComponents, Trim(BeforeColon(specs[i]))) = {}) =>
               /\ run[p].componentData.type = "none"
               /\ run[p].err = "ValidationError"

C21_Witness ==
  \E p \in Procs :
    /\ SpecsParsed(p)
    /\ Len(run[p].specArgs) = 1
    /\ Len(SpecsGiven(run[p].specArgs)) = 3
    /\ Len(run[p].componentData.selectedComponents) = 3
    /\ run[p].componentData.selectedComponents[3].component.id = <<"button">>
    /\ "json" \in run[p].wrote

C23_OrderFollowsToggles ==
  [][ \A p \in Procs :
        run[p].pc = "multiselect" =>
          /\ \A i \in run'[p].enabled \ run[p].enabled :
               run'[p].selectionOrder
                 = Append(run[p].selectionOrder, run[p].allComponents[i].name)
          /\ \A i \in run[p].enabled \ run'[p].enabled :
               /\ run[p].allComponents[i].name \notin Range(run'[p].selectionOrder)
               /\ \A n \in Range(run[p].selectionOrder) \ {run[p].allComponents[i].name} :
                    n \in Range(run'[p].selectionOrder)
          /\ run'[p].pc = "names" =>
               /\ Len(run'[p].componentData.selectedComponents)
                    = Len(run[p].selectionOrder)
               /\ \A k \in 1..Len(run[p].selectionOrder) :
                    run'[p].componentData.selectedComponents[k].component.name
                      = run[p].selectionOrder[k]
    ]_vars

\* C30: during the multi-select the order record holds no name twice and holds
\* exactly the names of the enabled options, one per enabled option.
C30_OrderRecordIsEnabledSet ==
  \A p \in Procs :
    run[p].pc = "multiselect" =>
      /\ \A i, j \in 1..Len(run[p].selectionOrder) :
           i # j => run[p].selectionOrder[i] # run[p].selectionOrder[j]
      /\ Range(run[p].selectionOrder)
           = {run[p].allComponents[i].name : i \in run[p].enabled}
      /\ Len(run[p].selectionOrder) = Cardinality(run[p].enabled)

\* the three files of the component n have been written
Generated(n) ==
  /\ n \in DOMAIN componentFiles
  /\ componentFiles[n].js # Undefined
  /\ componentFiles[n].css # Undefined
  /\ componentFiles[n].json # Undefined

\* C24: once a component has been generated for a name, a later run for that
\* name ends at the validation of the name with a name-conflict error, and
\* neither its start nor that step changes a component file or a shared
\* document; a run that has ended does nothing more.
C24_RerunFailsOnConflict ==
  [][ \A p \in Procs :
        /\ (run[p].pc = "validate" /\ run'[p] # run[p]
               /\ Generated(run'[p].componentName)) =>
             /\ run'[p].pc = "exited"
             /\ run'[p].err = "NameConflict"
             /\ run'[p].exitCode = 1
             /\ UNCHANGED <<componentDirs, componentFiles, formJson, registry, mappings>>
        /\ (run[p].pc = "idle" /\ run'[p] # run[p]) =>
             UNCHANGED <<componentDirs, componentFiles, formJson, registry, mappings>>
        /\ run[p].pc = "exited" => run'[p] = run[p]
    ]_vars

C24_Witness ==
  \E p, q \in Procs :
    /\ p < q
    /\ run[p].reported = "success"
    /\ Generated(run[p].componentName)
    /\ run[q].componentName = run[p].componentName
    /\ run[q].type # run[p].type
    /\ run[q].pc = "exited"
    /\ run[q].err = "NameConflict"
    /\ componentFiles[run[p].componentName].json
         = Serialize(SynthesizeJson(formComponents, <<>>, run[p].componentName,
                                    run[p].componentData).json)

\* The invocation has found no directory in checkComponentExists
PassedCheck(p) ==
  \/ run[p].pc \in {"mkdir", "create", "registry", "mappings", "filter"}
  \/ run[p].createdDir

\* The invocation has written its files, attempted both patches and reported success
WroteAndPatched(p) ==
  /\ run[p].pc = "exited"
  /\ run[p].reported = "success"
  /\ run[p].err = "none"
  /\ run[p].wrote = {"js", "css", "json"}
  /\ run[p].registryPatch # "none"
  /\ run[p].filterPatch # "none"

\* C25: when two concurrent invocations for the same target name have both
\* passed the existence check, no later step of either fails, with a name
\* conflict or otherwise: each step goes on, and an invocation that ends has
\* written the component files and patched the shared documents.
C25_BothPassBothWrite ==
  [][ \A p, q \in 1..NumRuns :
        (/\ p # q
         /\ run[p].componentName = run[q].componentName
         /\ PassedCheck(p)
         /\ PassedCheck(q)
         /\ run'[p] # run[p]) =>
          /\ run'[p].err = "none"
          /\ run'[p].pc # "exited" => run'[p].pc \in {"create", "registry", "mappings", "filter"}
          /\ run'[p].pc = "exited" => WroteAndPatched(p)'
    ]_vars

C25_Witness ==
  \E p, q \in Procs :
    /\ p < q
    /\ run[p].componentName = run[q].componentName
    /\ run[p].rawName # run[q].rawName
    /\ run[p].type = "simple"
    /\ run[q].type = "composite"
    /\ WroteAndPatched(p)
    /\ WroteAndPatched(q)
    /\ Generated(run[p].componentName)

\* C26: the registry patch leaves the filter list alone and, failed or not,
\* lets the run go on; the filter-list patch leaves the registry alone and is
\* attempted and applied to the filter list as it stands whatever the outcome
\* of the registry patch; a failed filter-list patch leaves the registry patch
\* in place.
C26_PatchesIndependent ==
  [][ \A p \in Procs :
        /\ (run[p].pc = "registry" /\ run'[p] # run[p]) =>
             /\ formJson' = formJson
             /\ run'[p].pc = "mappings"
             /\ run'[p].err = "none"
             /\ run'[p].registryPatch # "none"
        /\ (run[p].pc = "filter" /\ run'[p] # run[p]) =>
             /\ registry' = registry
             /\ run'[p].registryPatch = run[p].registryPatch
             /\ run'[p].filterPatch # "none"
             /\ (formJson.readable /\ HasFilterMatch(formJson.text)) =>
                  /\ run'[p].filterPatch \in {"added", "present"}
                  /\ run[p].componentName
                       \in Range(CurrentFilterComponents(formJson'.text))
             /\ ~(formJson.readable /\ HasFilterMatch(formJson.text)) =>
                  /\ run'[p].filterPatch = "failed"
                  /\ formJson' = formJson
    ]_vars

C26_Witness ==
  \E p \in Procs :
    /\ run[p].pc = "exited"
    /\ run[p].registryPatch = "failed"
    /\ run[p].filterPatch = "added"
    /\ run[p].reported = "success"
    /\ run[p].componentName \in Range(CurrentFilterComponents(formJson.text))

\* The document has no definitions array or an empty one
LacksDefinitions(file) ==
  \/ ~file.json
  \/ Get(file.doc, <<"definitions">>).kind # "arr"
  \/ Get(file.doc, <<"definitions">>).items = <<>>

\* C27: every entry of the catalog cache has a non-empty definitions array,
\* whose first element is its definition; a document without definitions is
\* in the cache under no identifier, is absent from the catalog that listAll
\* returns, and does not make listAll fail: a run that ends on an invalid
\* document does so in the synthesis, after the directory was made.
C27_CachedDefinitionsNonEmpty ==
  \A p \in Procs :
    /\ \A id \in DOMAIN run[p].cache :
         /\ run[p].cache[id].definitions # <<>>
         /\ run[p].cache[id].definition = run[p].cache[id].definitions[1]
    /\ \A i \in 1..Len(formComponents) :
         LacksDefinitions(formComponents[i].file) =>
           /\ \A id \in DOMAIN run[p].cache :
                run[p].cache[id].filename # formComponents[i].filename
           /\ \A c \in 1..Len(run[p].allComponents) :
                run[p].allComponents[c].filename # formComponents[i].filename
    /\ run[p].err = "InvalidSchema" => run[p].createdDir

C27_Witness ==
  \E p \in Procs :
    /\ \E i \in 1..Len(formComponents) :
         /\ IsDefinitionFilename(formComponents[i].filename)
         /\ LacksDefinitions(formComponents[i].file)
    /\ run[p].type = "composite"
    /\ run[p].allComponents # <<>>
    /\ run[p].cache # <<>>
    /\ run[p].pc = "exited"
    /\ run[p].err = "InvalidSchema"
    /\ <<"panel">> \notin DOMAIN run[p].cache

\* C28: a synthesis leaves every cached base definition as it was loaded: no
\* step changes a cache entry, after a synthesis step every entry, the panel's
\* included, equals what a load of its document gives, and a second synthesis
\* with the same inputs over the cache left behind gives the document written.
C28_SynthesisKeepsCache ==
  [][ \A p \in Procs :
        /\ \A id \in DOMAIN run[p].cache :
             /\ id \in DOMAIN run'[p].cache
             /\ run'[p].cache[id] = run[p].cache[id]
        /\ (run[p].pc = "create" /\ run'[p] # run[p]) =>
             /\ \A id \in DOMAIN run'[p].cache :
                  run'[p].cache[id]
                    = getComponentDefinition(formComponents, <<>>, id).data
             /\ "json" \in run'[p].wrote =>
                  componentFiles'[run[p].componentName].json
                    = Serialize(SynthesizeJson(formComponents, run'[p].cache,
                                               run[p].componentName,
                                               run[p].componentData).json)
    ]_vars

C28_Witness ==
  \E p \in Procs :
    /\ run[p].type = "composite"
    /\ "json" \in run[p].wrote
    /\ <<"panel">> \in DOMAIN run[p].cache
    /\ run[p].cache[<<"panel">>]
         = getComponentDefinition(formComponents, <<>>, <<"panel">>).data
    /\ componentFiles[run[p].componentName].json
         = Serialize(SynthesizeJson(formComponents, run[p].cache, run[p].componentName,
                                    run[p].componentData).json)

\* The object out has the members of the object base and those named in
\* changed, and every member of base not named in changed has its value in base
OtherMembersKept(out, base, changed) ==
  /\ out.kind = "obj"
  /\ Range(Keys(out)) = Range(Keys(base)) \cup changed
  /\ \A key \in Range(Keys(base)) \ changed : Get(out, key) = Get(base, key)

\* The base document of a simple run, as getComponentDefinition loaded it
BaseOf(p) == run[p].cache[run[p].componentData.baseComponent.filename]

\* C29: the schema document of a written simple component has as many
\* definitions and models as the base; each definition keeps every member of the
\* base definition but id, title and, inside plugins.xwalk.page, the template;
\* the template keeps every member of the base template but the display title
\* and the view type, which are the target's.
C29_SimpleKeepsBaseProperties ==
  \A p \in Procs :
    WroteSimple(p) =>
      \A doc \in {componentFiles[run[p].componentName].json} :
        /\ Len(Get(doc, <<"definitions">>).items) = Len(BaseOf(p).definitions)
        /\ Len(Get(doc, <<"models">>).items) = Len(BaseOf(p).models)
        /\ \A i \in 1..Len(BaseOf(p).definitions) :
             \A def \in {Get(doc, <<"definitions">>).items[i]},
                base \in {BaseOf(p).definitions[i]} :
               /\ OtherMembersKept(def, base, {<<"title">>, <<"id">>, <<"plugins">>})
               /\ OtherMembersKept(Get(def, <<"plugins">>), Get(base, <<"plugins">>),
                                   {<<"xwalk">>})
               /\ OtherMembersKept(Get(Get(def, <<"plugins">>), <<"xwalk">>),
                                   Get(Get(base, <<"plugins">>), <<"xwalk">>),
                                   {<<"page">>})
               /\ OtherMembersKept(PageOf(def), PageOf(base), {<<"template">>})
               /\ OtherMembersKept(Get(PageOf(def), <<"template">>),
                                   Get(PageOf(base), <<"template">>),
                                   {<<"jcr:title">>, <<"fd:viewType">>})
               /\ Get(Get(PageOf(def), <<"template">>), <<"jcr:title">>)
                    = Str(FormattedName(run[p].componentName))
               /\ Get(Get(PageOf(def), <<"template">>), <<"fd:viewType">>)
                    = Str(run[p].componentName)

C29_Witness ==
  \E p \in Procs :
    /\ WroteSimple(p)
    /\ Len(BaseOf(p).definitions) = 2
    /\ Has(Get(PageOf(BaseOf(p).definitions[1]), <<"template">>), <<"fieldType">>)
    /\ Get(Get(PageOf(Get(componentFiles[run[p].componentName].json,
                           <<"definitions">>).items[1]), <<"template">>), <<"fieldType">>)
         = Get(Get(PageOf(BaseOf(p).definitions[1]), <<"template">>), <<"fieldType">>)

====
